---- MODULE Spec2Model ----
(***************************************************************************)
(* Model of the transcript segmentation and caption compositing code of    *)
(* auto-video-generator: SRTGenerator (app/srt_generator.py),              *)
(* CaptionBurner (app/caption_burner.py), and the phases of VideoPipeline  *)
(* (app/main.py) with VideoAssembler.stitch_videos.                        *)
(*                                                                         *)
(* Times are integers counting milliseconds (0.3 s is 300).  Strings are   *)
(* sequences of one-character strings; a file is the sequence of its      *)
(* lines, i.e. its content split at "\n".                                  *)
(***************************************************************************)
EXTENDS Integers, Sequences, FiniteSets, TLC

VARIABLES
    words,          \* group_words argument: list of {'word','start','end'}
    config,         \* SRTGenerator.config (SRTConfig)
    pcSeg,          \* position inside group_words
    i,              \* local i of the grouping loop (0-based)
    index,          \* local index of the grouping loop
    subtitles,      \* local subtitles list of the grouping loop / cue list
    srtFile,        \* the subtitle file: whether it exists and its content
    parsed,         \* outcome of parse_srt on the subtitle file
    pcSrt,          \* position of the serialise / parse sequence
    args,           \* per burn_captions run: its arguments and its media
    run,            \* per burn_captions run: position and local variables
    self_temp_dir,  \* per CaptionBurner instance: the field self.temp_dir
    tempDirs,       \* directories made by tempfile.mkdtemp, in creation order
    outFile,        \* per run: state of the file at output_path
    ffmpegCalls,    \* per run: number of encoder invocations
    wrap,           \* a call of _wrap_text: its arguments and its result
    place,          \* a position computation: frame, image, style and anchor
    canvas,         \* a call of create_caption_image: arguments, image, draws
    items,          \* VideoPipeline.run: pending_items, one dict per sheet row
    phase,          \* VideoPipeline.run: the phase that runs next
    worker,         \* per item: position of _process_single_video_assembly
    concat_file,    \* the file "concat_list.txt" of the working directory
    sheet           \* the status column of the sheet, per row

segVars == <<words, config, pcSeg, i, index, subtitles>>

srtVars == <<srtFile, parsed, pcSrt>>

burnVars == <<args, run, self_temp_dir, tempDirs, outFile, ffmpegCalls>>

layVars == <<wrap, place, canvas>>

asmVars == <<items, phase, worker, concat_file, sheet>>

vars == <<words, config, pcSeg, i, index, subtitles, srtFile, parsed, pcSrt,
          args, run, self_temp_dir, tempDirs, outFile, ffmpegCalls, wrap, place,
          canvas, items, phase, worker, concat_file, sheet>>

\* everything but the Segmenter's state
notSeg == <<srtFile, parsed, pcSrt, args, run, self_temp_dir, tempDirs,
            outFile, ffmpegCalls, wrap, place, canvas, items, phase, worker,
            concat_file, sheet>>

----------------------------------------------------------------------------
(* Bounds of the model *)

MaxWords == 3           \* longest token stream
MaxCues == MaxWords + 1 \* cap on emitted cues (stops a loop that never ends)
MaxSrtCues == 2         \* longest cue list handed to generate_srt_content
MaxBlocks == 3          \* most blocks of a hand-made subtitle file
MaxOverlapCues == 2     \* longest cue list handed to _prevent_overlaps alone
MaxWrapWords == 3       \* most words of a text handed to _wrap_text alone

TimeGrid == {0, 50, 400, 900}                \* word start / end times, ms
Vocab == { <<"a">>, <<"b", ".">>, <<"c", ",">> }  \* token texts
ExtensionValues == {0, 300}                  \* end_phrase_extension, ms
MinGapValues == {0, 100}                     \* min_gap_between_subtitles, ms

----------------------------------------------------------------------------
(* Strings *)

Last(s) == s[Len(s)]

endswith(s, p) == Len(s) > 0 /\ Last(s) = p

\* sep.join(parts) for a one-character separator
RECURSIVE join(_, _)
join(sep, parts) ==
    IF parts = <<>> THEN <<>>
    ELSE IF Len(parts) = 1 THEN parts[1]
    ELSE parts[1] \o <<sep>> \o join(sep, Tail(parts))

----------------------------------------------------------------------------
(* SRTConfig *)

FIXED_WORD_COUNT == "fixed_word_count"
TIME_BASED == "time_based"
CHARACTER_COUNT == "character_count"
SMART_PHRASE == "smart_phrase"

punctuation_marks == {".", "!", "?", ",", ";", ":"}
major_punctuation == {".", "!", "?"}
minor_punctuation == {",", ";", ":"}

DefaultConfig ==
    [grouping_strategy |-> FIXED_WORD_COUNT,
     words_per_subtitle |-> 3,
     max_duration_per_subtitle |-> 2000,
     max_chars_per_subtitle |-> 42,
     smart_phrase_min_words_for_minor_punct |-> 3,
     smart_phrase_max_words |-> 5,
     end_phrase_extension |-> 300,
     min_gap_between_subtitles |-> 100]

\* the configurations explored: one strategy with its own parameter varied
StrategyConfigs ==
    {[DefaultConfig EXCEPT !.grouping_strategy = FIXED_WORD_COUNT,
                           !.words_per_subtitle = n] : n \in {1, 2}}
    \cup {[DefaultConfig EXCEPT !.grouping_strategy = TIME_BASED,
                                !.max_duration_per_subtitle = d] : d \in {100, 400}}
    \cup {[DefaultConfig EXCEPT !.grouping_strategy = CHARACTER_COUNT,
                                !.max_chars_per_subtitle = c] : c \in {2, 4}}
    \cup {[DefaultConfig EXCEPT !.grouping_strategy = SMART_PHRASE,
                                !.smart_phrase_min_words_for_minor_punct = p[1],
                                !.smart_phrase_max_words = p[2]] : p \in {<<1, 2>>, <<2, 3>>}}

Configs ==
    {[c EXCEPT !.end_phrase_extension = e, !.min_gap_between_subtitles = g] :
        c \in StrategyConfigs, e \in ExtensionValues, g \in MinGapValues}

\* well-formed token streams of exactly n words starting no earlier than t:
\* each word lasts at least d (start + d <= end) and the times never decrease
RECURSIVE WordStreams(_, _, _)
WordStreams(n, t, d) ==
    IF n = 0 THEN {<<>>}
    ELSE UNION { { <<[word |-> w, start |-> p[1], end |-> p[2]]>> \o rest :
                      rest \in WordStreams(n - 1, p[2], d) } :
                 w \in Vocab,
                 p \in {q \in TimeGrid \X TimeGrid : t <= q[1] /\ q[1] + d <= q[2]} }

\* every stream, words of no duration included
AllWordStreams == UNION { WordStreams(n, 0, 0) : n \in 0..MaxWords }

\* the token stream [("Hello", 0.0, 0.4), ("world.", 0.4, 0.9)]
ScenarioAWords ==
    << [word |-> <<"H", "e", "l", "l", "o">>, start |-> 0, end |-> 400],
       [word |-> <<"w", "o", "r", "l", "d", ".">>, start |-> 400, end |-> 900] >>

\* streams whose words all have a positive duration
PositiveWordStreams == UNION { WordStreams(n, 0, 1) : n \in 0..MaxWords }

----------------------------------------------------------------------------
(* SRTGenerator: grouping *)

has_punct(word, marks) == \E p \in marks : endswith(word, p)

SubtitleEntry(idx, st, en, txt) ==
    [index |-> idx, start_time |-> st, end_time |-> en, text |-> txt]

\* variant that clamps every end, whether or not it reaches the next start
RECURSIVE prevent_overlaps_always(_, _, _)
prevent_overlaps_always(subs, k, min_gap) ==
    IF k > Len(subs) - 1 THEN subs
    ELSE prevent_overlaps_always(
             [subs EXCEPT ![k].end_time = subs[k + 1].start_time - min_gap],
             k + 1, min_gap)

\* _prevent_overlaps: the loop over range(len(subtitles) - 1), from position k
RECURSIVE prevent_overlaps_from(_, _, _)
prevent_overlaps_from(subs, k, min_gap) ==
    IF k > Len(subs) - 1 THEN subs
    ELSE LET next_start == subs[k + 1].start_time
             clamped == IF subs[k].end_time + min_gap > next_start
                        THEN [subs EXCEPT ![k].end_time = next_start - min_gap]
                        ELSE subs
         IN prevent_overlaps_from(clamped, k + 1, min_gap)

\* variant that clamps to the next start and forgets the gap
prevent_overlaps_no_gap(subs, min_gap) == prevent_overlaps_from(subs, 1, 0)

prevent_overlaps(subs, min_gap) == prevent_overlaps_from(subs, 1, min_gap)

\* variant that extends the end after any punctuation mark
emit_cue_any_punct(subs, idx, group_start, group_end, group) ==
    LET is_phrase_end == has_punct(Last(group), punctuation_marks)
        end_time == IF is_phrase_end
                    THEN group_end + config.end_phrase_extension
                    ELSE group_end
    IN Append(subs, SubtitleEntry(idx, group_start, end_time, join(" ", group)))

\* variant that forgets the extension after a phrase end
emit_cue_no_extension(subs, idx, group_start, group_end, group) ==
    Append(subs, SubtitleEntry(idx, group_start, group_end, join(" ", group)))

\* the "if group_words:" block shared by the four strategies: extend the end
\* on major punctuation and append the cue
emit_cue(subs, idx, group_start, group_end, group) ==
    LET is_phrase_end == has_punct(Last(group), major_punctuation)
        end_time == IF is_phrase_end
                    THEN group_end + config.end_phrase_extension
                    ELSE group_end
    IN Append(subs, SubtitleEntry(idx, group_start, end_time, join(" ", group)))

\* variant that does not stop at punctuation
RECURSIVE fixed_count_inner_no_punct(_, _, _, _, _)
fixed_count_inner_no_punct(ws, i0, j, group, group_end) ==
    IF j >= config.words_per_subtitle
    THEN [group |-> group, group_end |-> group_end, i |-> i0 + Len(group)]
    ELSE IF i0 + j >= Len(ws)
    THEN [group |-> group, group_end |-> group_end, i |-> i0]
    ELSE fixed_count_inner_no_punct(ws, i0, j + 1,
                                    Append(group, ws[i0 + j + 1].word),
                                    ws[i0 + j + 1].end)

\* inner "for j in range(words_per_subtitle)" of group_words_fixed_count;
\* returns the group, its end and the new value of i
RECURSIVE fixed_count_inner(_, _, _, _, _)
fixed_count_inner(ws, i0, j, group, group_end) ==
    IF j >= config.words_per_subtitle
    THEN [group |-> group, group_end |-> group_end, i |-> i0 + Len(group)]
    ELSE IF i0 + j >= Len(ws)
    THEN [group |-> group, group_end |-> group_end, i |-> i0]
    ELSE LET current_word == ws[i0 + j + 1]
         IN IF has_punct(current_word.word, punctuation_marks)
            THEN [group |-> Append(group, current_word.word),
                  group_end |-> current_word.end,
                  i |-> i0 + j + 1]
            ELSE fixed_count_inner(ws, i0, j + 1,
                                   Append(group, current_word.word),
                                   current_word.end)

\* variant that tests the cap against the previous word's end
RECURSIVE time_based_inner_late_cap(_, _, _, _, _, _)
time_based_inner_late_cap(ws, i0, j, group_start, group, group_end) ==
    IF i0 + j >= Len(ws)
    THEN [group |-> group, group_end |-> group_end]
    ELSE LET current_word == ws[i0 + j + 1]
         IN IF group_end - group_start > config.max_duration_per_subtitle /\ j > 0
            THEN [group |-> group, group_end |-> group_end]
            ELSE IF has_punct(current_word.word, punctuation_marks)
            THEN [group |-> Append(group, current_word.word),
                  group_end |-> current_word.end]
            ELSE time_based_inner_late_cap(ws, i0, j + 1, group_start,
                                           Append(group, current_word.word),
                                           current_word.end)

\* inner "while i + j < len(words)" of group_words_time_based
RECURSIVE time_based_inner(_, _, _, _, _, _)
time_based_inner(ws, i0, j, group_start, group, group_end) ==
    IF i0 + j >= Len(ws)
    THEN [group |-> group, group_end |-> group_end]
    ELSE LET current_word == ws[i0 + j + 1]
             potential_end == current_word.end
         IN IF potential_end - group_start > config.max_duration_per_subtitle /\ j > 0
            THEN [group |-> group, group_end |-> group_end]
            ELSE IF has_punct(current_word.word, punctuation_marks)
            THEN [group |-> Append(group, current_word.word),
                  group_end |-> current_word.end]
            ELSE time_based_inner(ws, i0, j + 1, group_start,
                                  Append(group, current_word.word),
                                  current_word.end)

\* variant that measures the words without the spaces between them
RECURSIVE character_count_inner_no_spaces(_, _, _, _, _)
character_count_inner_no_spaces(ws, i0, j, group, group_end) ==
    IF i0 + j >= Len(ws)
    THEN [group |-> group, group_end |-> group_end]
    ELSE LET current_word == ws[i0 + j + 1]
             potential_text == join("", Append(group, current_word.word))
         IN IF Len(potential_text) - Len(group) > config.max_chars_per_subtitle /\ j > 0
            THEN [group |-> group, group_end |-> group_end]
            ELSE IF has_punct(current_word.word, punctuation_marks)
            THEN [group |-> Append(group, current_word.word),
                  group_end |-> current_word.end]
            ELSE character_count_inner_no_spaces(ws, i0, j + 1,
                                                 Append(group, current_word.word),
                                                 current_word.end)

\* inner "while i + j < len(words)" of group_words_character_count
RECURSIVE character_count_inner(_, _, _, _, _)
character_count_inner(ws, i0, j, group, group_end) ==
    IF i0 + j >= Len(ws)
    THEN [group |-> group, group_end |-> group_end]
    ELSE LET current_word == ws[i0 + j + 1]
             potential_text == join(" ", Append(group, current_word.word))
         IN IF Len(potential_text) > config.max_chars_per_subtitle /\ j > 0
            THEN [group |-> group, group_end |-> group_end]
            ELSE IF has_punct(current_word.word, punctuation_marks)
            THEN [group |-> Append(group, current_word.word),
                  group_end |-> current_word.end]
            ELSE character_count_inner(ws, i0, j + 1,
                                       Append(group, current_word.word),
                                       current_word.end)

\* variant that stops at minor punctuation whatever the cue's length
RECURSIVE smart_phrase_inner_any_minor(_, _, _, _, _)
smart_phrase_inner_any_minor(ws, i0, j, group, group_end) ==
    IF i0 + j >= Len(ws)
    THEN [group |-> group, group_end |-> group_end]
    ELSE LET current_word == ws[i0 + j + 1]
             grown == Append(group, current_word.word)
         IN IF has_punct(current_word.word, punctuation_marks)
            THEN [group |-> grown, group_end |-> current_word.end]
            ELSE IF Len(grown) >= config.smart_phrase_max_words
            THEN [group |-> grown, group_end |-> current_word.end]
            ELSE smart_phrase_inner_any_minor(ws, i0, j + 1, grown, current_word.end)

\* inner "while i + j < len(words)" of group_words_smart_phrase
RECURSIVE smart_phrase_inner(_, _, _, _, _)
smart_phrase_inner(ws, i0, j, group, group_end) ==
    IF i0 + j >= Len(ws)
    THEN [group |-> group, group_end |-> group_end]
    ELSE LET current_word == ws[i0 + j + 1]
             grown == Append(group, current_word.word)
             has_major_punct == has_punct(current_word.word, major_punctuation)
             has_minor_punct == has_punct(current_word.word, minor_punctuation)
         IN IF has_major_punct
            THEN [group |-> grown, group_end |-> current_word.end]
            ELSE IF has_minor_punct
                    /\ Len(grown) >= config.smart_phrase_min_words_for_minor_punct
            THEN [group |-> grown, group_end |-> current_word.end]
            ELSE IF Len(grown) >= config.smart_phrase_max_words
            THEN [group |-> grown, group_end |-> current_word.end]
            ELSE smart_phrase_inner(ws, i0, j + 1, grown, current_word.end)

\* "i += len(group_words) if group_words else 1"
advance(i0, group) == i0 + (IF group # <<>> THEN Len(group) ELSE 1)

\* variant that never increments index
AfterIterationStaleIndex(r, new_i) ==
    /\ i' = new_i
    /\ IF r.group # <<>>
       THEN /\ subtitles' = emit_cue(subtitles, index, words[i + 1].start,
                                     r.group_end, r.group)
            /\ index' = index
       ELSE UNCHANGED <<subtitles, index>>

\* the values of (i, index, subtitles) after one iteration that built r
AfterIteration(r, new_i) ==
    /\ i' = new_i
    /\ IF r.group # <<>>
       THEN /\ subtitles' = emit_cue(subtitles, index, words[i + 1].start,
                                     r.group_end, r.group)
            /\ index' = index + 1
       ELSE UNCHANGED <<subtitles, index>>

\* group_words with an empty list: "if not words: return []"
group_words_empty ==
    /\ pcSeg = "start"
    /\ words = <<>>
    /\ pcSeg' = "returned"
    /\ subtitles' = <<>>
    /\ UNCHANGED <<words, config, i, index>>
    /\ UNCHANGED notSeg

\* group_words dispatching to the configured strategy; the strategy
\* initialises subtitles = [], index = 1, i = 0
group_words_dispatch ==
    /\ pcSeg = "start"
    /\ words # <<>>
    /\ pcSeg' = "loop"
    /\ subtitles' = <<>>
    /\ index' = 1
    /\ i' = 0
    /\ UNCHANGED <<words, config>>
    /\ UNCHANGED notSeg

\* one iteration of "while i < len(words)" in group_words_fixed_count
group_words_fixed_count ==
    /\ pcSeg = "loop"
    /\ config.grouping_strategy = FIXED_WORD_COUNT
    /\ i < Len(words)
    /\ Len(subtitles) < MaxCues
    /\ LET r == fixed_count_inner(words, i, 0, <<>>, words[i + 1].end)
       IN AfterIteration(r, r.i)
    /\ UNCHANGED <<words, config, pcSeg>>
    /\ UNCHANGED notSeg

\* one iteration of "while i < len(words)" in group_words_time_based
group_words_time_based ==
    /\ pcSeg = "loop"
    /\ config.grouping_strategy = TIME_BASED
    /\ i < Len(words)
    /\ Len(subtitles) < MaxCues
    /\ LET r == time_based_inner(words, i, 0, words[i + 1].start, <<>>,
                                 words[i + 1].end)
       IN AfterIteration(r, advance(i, r.group))
    /\ UNCHANGED <<words, config, pcSeg>>
    /\ UNCHANGED notSeg

\* one iteration of "while i < len(words)" in group_words_character_count
group_words_character_count ==
    /\ pcSeg = "loop"
    /\ config.grouping_strategy = CHARACTER_COUNT
    /\ i < Len(words)
    /\ Len(subtitles) < MaxCues
    /\ LET r == character_count_inner(words, i, 0, <<>>, words[i + 1].end)
       IN AfterIteration(r, advance(i, r.group))
    /\ UNCHANGED <<words, config, pcSeg>>
    /\ UNCHANGED notSeg

\* one iteration of "while i < len(words)" in group_words_smart_phrase
group_words_smart_phrase ==
    /\ pcSeg = "loop"
    /\ config.grouping_strategy = SMART_PHRASE
    /\ i < Len(words)
    /\ Len(subtitles) < MaxCues
    /\ LET r == smart_phrase_inner(words, i, 0, <<>>, words[i + 1].end)
       IN AfterIteration(r, advance(i, r.group))
    /\ UNCHANGED <<words, config, pcSeg>>
    /\ UNCHANGED notSeg

\* loop exit of any strategy: "return self._prevent_overlaps(subtitles)"
return_prevent_overlaps ==
    /\ pcSeg = "loop"
    /\ ~(i < Len(words))
    /\ subtitles' = prevent_overlaps(subtitles, config.min_gap_between_subtitles)
    /\ pcSeg' = "returned"
    /\ UNCHANGED <<words, config, i, index>>
    /\ UNCHANGED notSeg

\* _prevent_overlaps called on a list of computed cues
call_prevent_overlaps ==
    /\ pcSeg = "computed"
    /\ subtitles' = prevent_overlaps(subtitles, config.min_gap_between_subtitles)
    /\ pcSeg' = "clamped"
    /\ UNCHANGED <<words, config, i, index>>
    /\ UNCHANGED notSeg

SegInit ==
    /\ words \in AllWordStreams \cup {ScenarioAWords}
    /\ config \in Configs
    /\ pcSeg = "start"
    /\ i = 0
    /\ index = 1
    /\ subtitles = <<>>

SegNext ==
    \/ group_words_empty
    \/ group_words_dispatch
    \/ group_words_fixed_count
    \/ group_words_time_based
    \/ group_words_character_count
    \/ group_words_smart_phrase
    \/ return_prevent_overlaps

----------------------------------------------------------------------------
(* Subtitle file: SRTGenerator.generate_srt_content, CaptionBurner.parse_srt *)

NL == "\n"

Digits == <<"0", "1", "2", "3", "4", "5", "6", "7", "8", "9">>

is_digit(c) == \E d \in 1..10 : Digits[d] = c

digit_value(c) == (CHOOSE d \in 1..10 : Digits[d] = c) - 1

\* str(n) for n >= 0
RECURSIVE decimal(_)
decimal(n) == IF n < 10 THEN <<Digits[n + 1]>>
              ELSE decimal(n \div 10) \o <<Digits[(n % 10) + 1]>>

RECURSIVE zfill(_, _)
zfill(s, width) == IF Len(s) >= width THEN s ELSE zfill(<<"0">> \o s, width)

\* f"{n:0<width>}": zero padded to at least width characters, sign included
format_int(n, width) ==
    IF n >= 0 THEN zfill(decimal(n), width)
    ELSE <<"-">> \o zfill(decimal(-n), width - 1)

\* int(x) of a float: truncation toward zero, here of t / 1000
trunc_seconds(t) == IF t >= 0 THEN t \div 1000 ELSE -((-t) \div 1000)

\* format_timestamp: "//" and "%" floor, int() truncates
format_timestamp(t) ==
    LET h == t \div 3600000
        m == (t % 3600000) \div 60000
        sec == (t % 60000) \div 1000
        ms == t - 1000 * trunc_seconds(t)
    IN format_int(h, 2) \o <<":">> \o format_int(m, 2) \o <<":">>
       \o format_int(sec, 2) \o <<",">> \o format_int(ms, 3)

ARROW == <<" ", "-", "-", ">", " ">>

\* one element of srt_lines
srt_entry(sub) ==
    format_int(sub.index, 1) \o <<NL>>
    \o format_timestamp(sub.start_time) \o ARROW \o format_timestamp(sub.end_time)
    \o <<NL>> \o sub.text \o <<NL>>

generate_srt_content(subs) ==
    IF subs = <<>> THEN <<>>
    ELSE join(NL, [k \in 1..Len(subs) |-> srt_entry(subs[k])])

Whitespace == {" ", "\t", "\n", "\r"}

Min(S) == CHOOSE x \in S : \A y \in S : x <= y
Max(S) == CHOOSE x \in S : \A y \in S : y <= x

\* s.strip(): s without its leading and trailing whitespace
strip(s) ==
    LET solid == {k \in 1..Len(s) : s[k] \notin Whitespace}
    IN IF solid = {} THEN <<>> ELSE SubSeq(s, Min(solid), Max(solid))

\* s.split(sep) for a one-character separator
RECURSIVE split(_, _)
split(s, sep) ==
    LET at == {k \in 1..Len(s) : s[k] = sep}
    IN IF at = {} THEN <<s>>
       ELSE <<SubSeq(s, 1, Min(at) - 1)>> \o split(SubSeq(s, Min(at) + 1, Len(s)), sep)

\* end of the match of \n\s*\n that starts at p (0 if none): \s* is greedy,
\* so the match runs to the last newline of the whitespace run after p
match_blank_end(s, p) ==
    IF s[p] # NL THEN 0
    ELSE LET ends == {q \in (p + 1)..Len(s) :
                         s[q] = NL /\ \A k \in (p + 1)..q : s[k] \in Whitespace}
         IN IF ends # {} THEN Max(ends) ELSE 0

\* re.split(r'\n\s*\n', s): cut at the leftmost match, go on after it
RECURSIVE re_split_blank(_)
re_split_blank(s) ==
    LET starts == {k \in 1..Len(s) : match_blank_end(s, k) # 0}
    IN IF starts = {} THEN <<s>>
       ELSE <<SubSeq(s, 1, Min(starts) - 1)>>
            \o re_split_blank(SubSeq(s, match_blank_end(s, Min(starts)) + 1, Len(s)))

\* int(x) on a string: surrounding whitespace and one sign are accepted
int_ok(x) ==
    LET t == strip(x)
        body == IF t # <<>> /\ t[1] \in {"+", "-"} THEN Tail(t) ELSE t
    IN body # <<>> /\ \A k \in 1..Len(body) : is_digit(body[k])

RECURSIVE digits_value(_)
digits_value(d) ==
    IF d = <<>> THEN 0
    ELSE 10 * digits_value(SubSeq(d, 1, Len(d) - 1)) + digit_value(Last(d))

int_value(x) ==
    LET t == strip(x)
    IN IF t[1] = "-" THEN -digits_value(Tail(t))
       ELSE IF t[1] = "+" THEN digits_value(Tail(t))
       ELSE digits_value(t)

\* (\d{2}):(\d{2}):(\d{2}),(\d{3}) at position p of s
stamp_at(s, p) ==
    /\ p + 11 <= Len(s)
    /\ \A k \in {0, 1, 3, 4, 6, 7, 9, 10, 11} : is_digit(s[p + k])
    /\ s[p + 2] = ":"
    /\ s[p + 5] = ":"
    /\ s[p + 8] = ","

\* h * 3600 + m * 60 + s + ms / 1000 of the stamp at position p
stamp_value(s, p) ==
    digits_value(SubSeq(s, p, p + 1)) * 3600000
    + digits_value(SubSeq(s, p + 3, p + 4)) * 60000
    + digits_value(SubSeq(s, p + 6, p + 7)) * 1000
    + digits_value(SubSeq(s, p + 9, p + 11))

\* first position at or after p that holds no whitespace
RECURSIVE skip_ws(_, _)
skip_ws(s, p) == IF p <= Len(s) /\ s[p] \in Whitespace THEN skip_ws(s, p + 1) ELSE p

\* re.match of the time line pattern: position of the second stamp, 0 if the
\* line does not match
time_line_match(s) ==
    IF ~stamp_at(s, 1) THEN 0
    ELSE LET a == skip_ws(s, 13)
         IN IF ~(a + 2 <= Len(s) /\ s[a] = "-" /\ s[a + 1] = "-" /\ s[a + 2] = ">")
            THEN 0
            ELSE LET b == skip_ws(s, a + 3)
                 IN IF stamp_at(s, b) THEN b ELSE 0

\* variant without the except clause
caught_nothing == {}

\* exceptions that the except clause of parse_srt catches
caught_exceptions == {"ValueError", "IndexError"}

\* body of the try block for the lines of one block
parse_block(lines) ==
    IF ~int_ok(lines[1])
    THEN [exc |-> "ValueError", matched |-> FALSE, entry |-> <<>>]
    ELSE LET time_line == lines[2]
             text == join(NL, SubSeq(lines, 3, Len(lines)))
             b == time_line_match(time_line)
         IN IF b = 0
            THEN [exc |-> "none", matched |-> FALSE, entry |-> <<>>]
            ELSE [exc |-> "none", matched |-> TRUE,
                  entry |-> SubtitleEntry(int_value(lines[1]),
                                          stamp_value(time_line, 1),
                                          stamp_value(time_line, b),
                                          text)]

\* "for block in blocks" of parse_srt, from block k with acc collected so far
RECURSIVE parse_blocks(_, _, _)
parse_blocks(blocks, k, acc) ==
    IF k > Len(blocks) THEN [raised |-> "none", subtitles |-> acc]
    ELSE LET lines == split(strip(blocks[k]), NL)
         IN IF Len(lines) < 3 THEN parse_blocks(blocks, k + 1, acc)
            ELSE LET r == parse_block(lines)
                 IN IF r.exc \in caught_exceptions
                    THEN parse_blocks(blocks, k + 1, acc)
                    ELSE IF r.exc # "none"
                    THEN [raised |-> r.exc, subtitles |-> acc]
                    ELSE IF r.matched
                    THEN parse_blocks(blocks, k + 1, Append(acc, r.entry))
                    ELSE parse_blocks(blocks, k + 1, acc)

\* parse_srt on the content of the file
parse_srt(content) == parse_blocks(re_split_blank(strip(content)), 1, <<>>)


----------------------------------------------------------------------------
(* Serialising a cue list and parsing a subtitle file *)

SrtTimes == {0, 61001, 3661001, 359999999, 360000000}   \* cue times, ms
SrtTexts == { <<"h", "i">>, <<"a", " ", "b", ".">>, <<"4", "2">> }

\* cue lists with the Cue invariants: indices 1..n, start < end, sorted and
\* not overlapping, text not empty and on one line
RECURSIVE CueLists(_, _)
CueLists(n, t) ==
    IF n = 0 THEN {<<>>}
    ELSE UNION { { rest \o <<SubtitleEntry(n, p[1], p[2], txt)>> :
                      rest \in CueLists(n - 1, p[1]) } :
                 txt \in SrtTexts,
                 p \in {q \in SrtTimes \X SrtTimes : q[1] < q[2] /\ q[2] <= t} }

MaxSrtTime == CHOOSE t \in SrtTimes : \A u \in SrtTimes : u <= t

ValidCueLists == UNION { CueLists(n, MaxSrtTime) : n \in 0..MaxSrtCues }

\* blocks of hand-made files: two well-formed ones and one of each defect
GoodBlock ==
    <<"1", NL>> \o format_timestamp(1000) \o ARROW \o format_timestamp(2500)
    \o <<NL, "h", "i">>
GoodBlockTwoLines ==
    <<"0", "7", " ", NL>> \o format_timestamp(61001) \o <<"-", "-", ">">>
    \o format_timestamp(3661001) \o <<NL, "a", NL, "b">>
ShortBlock ==
    <<"2", NL>> \o format_timestamp(2500) \o ARROW \o format_timestamp(3000)
BadIndexBlock ==
    <<"x", NL>> \o format_timestamp(3000) \o ARROW \o format_timestamp(4000)
    \o <<NL, "y", "o">>
BadTimeBlock ==
    <<"3", NL>> \o SubSeq(format_timestamp(3000), 1, 8) \o ARROW
    \o SubSeq(format_timestamp(4000), 1, 8) \o <<NL, "y">>

BlockShapes == {GoodBlock, GoodBlockTwoLines, ShortBlock, BadIndexBlock, BadTimeBlock}

BlockSeparators == { <<NL, NL>>, <<NL, " ", NL, NL>> }

RECURSIVE join_blocks(_, _)
join_blocks(blocks, sep) ==
    IF Len(blocks) = 1 THEN blocks[1]
    ELSE blocks[1] \o sep \o join_blocks(Tail(blocks), sep)

GivenFiles ==
    { join_blocks(bs, sep) \o <<NL>> :
        bs \in UNION { [1..n -> BlockShapes] : n \in 1..MaxBlocks },
        sep \in BlockSeparators }

NoFile == [exists |-> FALSE, content |-> <<>>]

NothingParsed == [raised |-> "none", subtitles |-> <<>>]

\* srt_content = generate_srt_content(subtitles), written to the file
write_srt_content ==
    /\ pcSrt = "cues"
    /\ srtFile' = [exists |-> TRUE, content |-> generate_srt_content(subtitles)]
    /\ pcSrt' = "written"
    /\ UNCHANGED <<parsed>>
    /\ UNCHANGED segVars
    /\ UNCHANGED layVars
    /\ UNCHANGED asmVars
    /\ UNCHANGED burnVars

\* subtitles = parse_srt(srt_path)
parse_srt_file ==
    /\ pcSrt \in {"written", "file"}
    /\ srtFile.exists
    /\ parsed' = parse_srt(srtFile.content)
    /\ pcSrt' = IF pcSrt = "written" THEN "reparsed" ELSE "parsed"
    /\ UNCHANGED <<srtFile>>
    /\ UNCHANGED segVars
    /\ UNCHANGED layVars
    /\ UNCHANGED asmVars
    /\ UNCHANGED burnVars

\* variant without the "if not words" check: the empty content is written
\* and True is returned
generate_srt_no_check ==
    /\ pcSeg = "start"
    /\ pcSrt = "idle"
    /\ words = <<>>
    /\ pcSeg' = "skipped"
    /\ pcSrt' = "generated"
    /\ srtFile' = [exists |-> TRUE, content |-> generate_srt_content(<<>>)]
    /\ UNCHANGED <<words, config, i, index, subtitles>>
    /\ UNCHANGED <<parsed>>
    /\ UNCHANGED burnVars
    /\ UNCHANGED layVars
    /\ UNCHANGED asmVars

\* generate_srt after transcription: "if not words: return False"
generate_srt_no_words ==
    /\ pcSeg = "start"
    /\ pcSrt = "idle"
    /\ words = <<>>
    /\ pcSeg' = "skipped"
    /\ pcSrt' = "no_words"
    /\ UNCHANGED <<words, config, i, index, subtitles>>
    /\ UNCHANGED <<srtFile, parsed>>
    /\ UNCHANGED burnVars
    /\ UNCHANGED layVars
    /\ UNCHANGED asmVars

\* generate_srt once group_words has returned: an empty list returns False
\* and writes nothing, otherwise the content is written to output_path
generate_srt ==
    /\ pcSeg = "returned"
    /\ pcSrt = "idle"
    /\ IF subtitles = <<>>
       THEN /\ pcSrt' = "no_subtitles"
            /\ UNCHANGED srtFile
       ELSE /\ pcSrt' = "generated"
            /\ srtFile' = [exists |-> TRUE,
                           content |-> generate_srt_content(subtitles)]
    /\ UNCHANGED <<parsed>>
    /\ UNCHANGED segVars
    /\ UNCHANGED layVars
    /\ UNCHANGED asmVars
    /\ UNCHANGED burnVars

----------------------------------------------------------------------------
(* CaptionBurner: caption image size *)

Runs == {1, 2}          \* burn_captions invocations
Instances == {1, 2}     \* CaptionBurner objects

DefaultStyle ==
    [font_size |-> 48,
     outline_width |-> 3,
     background_padding |-> 20,
     position |-> "bottom",
     margin |-> 50,
     shadow |-> TRUE,
     shadow_offset |-> <<3, 3>>,
     max_width |-> 1800]

Positions == {"top", "middle", "bottom"}

\* font.getbbox(text) of a fixed-pitch font: (0, 0, width, height)
getbbox(text, style) ==
    <<0, 0, Len(text) * (style.font_size \div 2), style.font_size>>

\* text.split(): the words between runs of whitespace
RECURSIVE split_ws(_)
split_ws(s) ==
    LET t == strip(s)
        ws == {k \in 1..Len(t) : t[k] \in Whitespace}
    IN IF t = <<>> THEN <<>>
       ELSE IF ws = {} THEN <<t>>
       ELSE <<SubSeq(t, 1, Min(ws) - 1)>> \o split_ws(SubSeq(t, Min(ws) + 1, Len(t)))

\* variant that starts the new line empty: the word that did not fit is lost
RECURSIVE wrap_loop_drops_word(_, _, _, _)
wrap_loop_drops_word(ws, lines, current_line, style) ==
    IF ws = <<>>
    THEN IF current_line # <<>> THEN Append(lines, join(" ", current_line)) ELSE lines
    ELSE LET word == ws[1]
             test_line == join(" ", Append(current_line, word))
             bbox == getbbox(test_line, style)
             width == bbox[3] - bbox[1]
         IN IF width <= style.max_width
            THEN wrap_loop_drops_word(Tail(ws), lines, Append(current_line, word), style)
            ELSE wrap_loop_drops_word(Tail(ws),
                                      IF current_line # <<>>
                                      THEN Append(lines, join(" ", current_line))
                                      ELSE lines,
                                      <<>>, style)

\* variant without the "if current_line:" guard: a word that does not fit an
\* empty line closes that empty line
RECURSIVE wrap_loop_closes_empty(_, _, _, _)
wrap_loop_closes_empty(ws, lines, current_line, style) ==
    IF ws = <<>>
    THEN IF current_line # <<>> THEN Append(lines, join(" ", current_line)) ELSE lines
    ELSE LET word == ws[1]
             test_line == join(" ", Append(current_line, word))
             bbox == getbbox(test_line, style)
             width == bbox[3] - bbox[1]
         IN IF width <= style.max_width
            THEN wrap_loop_closes_empty(Tail(ws), lines, Append(current_line, word), style)
            ELSE wrap_loop_closes_empty(Tail(ws),
                                        Append(lines, join(" ", current_line)),
                                        <<word>>, style)

\* the "for word in words" loop of _wrap_text
RECURSIVE wrap_loop(_, _, _, _)
wrap_loop(ws, lines, current_line, style) ==
    IF ws = <<>>
    THEN IF current_line # <<>> THEN Append(lines, join(" ", current_line)) ELSE lines
    ELSE LET word == ws[1]
             test_line == join(" ", Append(current_line, word))
             bbox == getbbox(test_line, style)
             width == bbox[3] - bbox[1]
         IN IF width <= style.max_width
            THEN wrap_loop(Tail(ws), lines, Append(current_line, word), style)
            ELSE wrap_loop(Tail(ws),
                           IF current_line # <<>>
                           THEN Append(lines, join(" ", current_line)) ELSE lines,
                           <<word>>, style)

wrap_text(text, style) ==
    LET lines == wrap_loop(split_ws(text), <<>>, <<>>, style)
    IN IF lines # <<>> THEN lines ELSE <<text>>

RECURSIVE sum(_)
sum(xs) == IF xs = <<>> THEN 0 ELSE xs[1] + sum(Tail(xs))

max_of(xs) == IF xs = <<>> THEN 0 ELSE Max({xs[k] : k \in 1..Len(xs)})

\* size of the image returned by create_caption_image
caption_image_size(text, style) ==
    LET lines == wrap_text(text, style)
        line_widths == [k \in 1..Len(lines) |->
                           getbbox(lines[k], style)[3] - getbbox(lines[k], style)[1]]
        line_heights == [k \in 1..Len(lines) |->
                            getbbox(lines[k], style)[4] - getbbox(lines[k], style)[2]]
        max_line_width == max_of(line_widths)
        total_height == sum(line_heights) + (Len(lines) - 1) * 10
        padding == style.outline_width * 2
                   + (IF style.shadow THEN style.shadow_offset[1] ELSE 0) + 10
    IN [width |-> max_line_width + padding * 2 + style.background_padding * 2,
        height |-> total_height + padding * 2 + style.background_padding * 2]

\* "padding" of create_caption_image: room for outline and shadow
canvas_padding(style) ==
    style.outline_width * 2
    + (IF style.shadow THEN style.shadow_offset[1] ELSE 0) + 10

\* the offsets at which _draw_text_with_outline and the shadow loop draw a
\* line, relative to the line's position (text_x, text_y)
draw_offsets(style) ==
    LET around == (-style.outline_width)..style.outline_width
        outline == {<<ox, oy>> : ox \in around, oy \in around}
        shadowed == IF style.shadow
                    THEN {<<style.shadow_offset[1] + o[1],
                            style.shadow_offset[2] + o[2]>> : o \in outline}
                    ELSE {}
    IN outline \cup shadowed

\* the rectangles covered by the draw.text calls of create_caption_image:
\* every line is drawn at every offset, its box placed at the draw position
glyph_stamps(text, style) ==
    LET lines == wrap_text(text, style)
        img == caption_image_size(text, style)
        line_width(k) == getbbox(lines[k], style)[3] - getbbox(lines[k], style)[1]
        line_height(k) == getbbox(lines[k], style)[4] - getbbox(lines[k], style)[2]
        text_x(k) == (img.width - line_width(k)) \div 2
        text_y(k) == canvas_padding(style) + style.background_padding
                     + sum([j \in 1..(k - 1) |-> line_height(j) + 10])
    IN { [left |-> text_x(k) + o[1],
          top |-> text_y(k) + o[2],
          right |-> text_x(k) + o[1] + line_width(k),
          bottom |-> text_y(k) + o[2] + line_height(k)] :
            k \in 1..Len(lines), o \in draw_offsets(style) }

----------------------------------------------------------------------------
(* CaptionBurner.burn_captions *)

\* what ffprobe prints for a readable video stream
ProbedStream == [width |-> 1280, height |-> 720, fps |-> 30]

\* outcomes of the ffprobe process: exit code and the fields it printed
ProbeOutputs ==
    { [rc |-> 0, fields |-> {"width", "height", "r_frame_rate"}],
      [rc |-> 0, fields |-> {"width", "height"}],
      [rc |-> 0, fields |-> {}],
      [rc |-> 1, fields |-> {}] }

GoodProbe == [rc |-> 0, fields |-> {"width", "height", "r_frame_rate"}]

NoError == [type |-> "none", text |-> "none"]

\* _get_video_info: raises on a non-zero exit, otherwise the dict of the
\* fields that were printed
get_video_info(probe) ==
    IF probe.rc # 0
    THEN [exc |-> [type |-> "RuntimeError", text |-> "ffprobe stderr"],
          info |-> {}]
    ELSE [exc |-> NoError,
          info |-> {IF f = "r_frame_rate" THEN "fps" ELSE f : f \in probe.fields}]

\* variant that falls back to a default geometry when a key is missing
read_video_info_fallback(info) == NoError

\* video_info['width'], ['height'], ['fps']: the first missing key raises
read_video_info(info) ==
    IF {"width", "height", "fps"} \subseteq info
    THEN NoError
    ELSE [type |-> "KeyError", text |-> "missing key"]

\* position of the image: horizontally centred, vertically by style.position
image_x(video_width, img) == (video_width - img.width) \div 2

\* variant that forgets the margin at the bottom
image_y_no_margin(video_height, img, style) ==
    IF style.position = "top" THEN style.margin
    ELSE IF style.position = "middle" THEN (video_height - img.height) \div 2
    ELSE video_height - img.height

image_y(video_height, img, style) ==
    IF style.position = "top" THEN style.margin
    ELSE IF style.position = "middle" THEN (video_height - img.height) \div 2
    ELSE video_height - img.height - style.margin

\* variant that places every image where an image without text would go
caption_file_fixed_anchor(sub, dir, style) ==
    LET img == caption_image_size(<<>>, style)
    IN [path |-> [dir |-> dir, name |-> sub.index],
        start |-> sub.start_time,
        end |-> sub.end_time,
        x |-> image_x(ProbedStream.width, img),
        y |-> image_y(ProbedStream.height, img, style)]

\* the dict appended to caption_files for sub, image saved in directory dir
caption_file(sub, dir, style) ==
    LET img == caption_image_size(sub.text, style)
    IN [path |-> [dir |-> dir, name |-> sub.index],
        start |-> sub.start_time,
        end |-> sub.end_time,
        x |-> image_x(ProbedStream.width, img),
        y |-> image_y(ProbedStream.height, img, style)]

Label(kind, n) == [kind |-> kind, n |-> n]

\* variant that overlays every image on the original video
overlay_filter_unchained(caption, k, n) ==
    [base |-> Label("0:v", 0),
     overlay |-> Label("input", k + 1),
     x |-> caption.x,
     y |-> caption.y,
     enable |-> [fn |-> "between", lo |-> caption.start, hi |-> caption.end],
     out |-> IF k < n - 1 THEN Label("v", k) ELSE Label("outv", 0)]

\* one element of filter_parts: stage k (0-based) of n
overlay_filter(caption, k, n) ==
    [base |-> IF k = 0 THEN Label("0:v", 0) ELSE Label("v", k - 1),
     overlay |-> Label("input", k + 1),
     x |-> caption.x,
     y |-> caption.y,
     enable |-> [fn |-> "between", lo |-> caption.start, hi |-> caption.end],
     out |-> IF k < n - 1 THEN Label("v", k) ELSE Label("outv", 0)]

build_filter(caption_files) ==
    [k \in 1..Len(caption_files) |->
        overlay_filter(caption_files[k], k - 1, Len(caption_files))]

\* the ffmpeg command line
build_cmd(caption_files, r) ==
    [inputs |-> [k \in 1..Len(caption_files) |-> caption_files[k].path],
     filter_complex |-> build_filter(caption_files),
     map |-> Label("outv", 0),
     output |-> r]

\* ffmpeg's expression between(x, min, max): 1 iff min <= x <= max
between(x, min, max) == min <= x /\ x <= max

\* whether ffmpeg shows the overlay of a stage at presentation time t
stage_enabled(stage, t) == between(t, stage.enable.lo, stage.enable.hi)

\* whether ffmpeg can run the command at all: the mapped label is defined
\* and every image input is still on disk
cmd_runnable(cmd) ==
    /\ \E k \in 1..Len(cmd.filter_complex) : cmd.filter_complex[k].out = cmd.map
    /\ \A k \in 1..Len(cmd.inputs) :
          /\ tempDirs[cmd.inputs[k].dir].exists
          /\ cmd.inputs[k].name \in tempDirs[cmd.inputs[k].dir].files

FreshRun ==
    [pc |-> "idle",
     subtitles |-> <<>>,
     caption_files |-> <<>>,
     cmd |-> [inputs |-> <<>>, filter_complex |-> <<>>,
              map |-> Label("outv", 0), output |-> 0],
     own_dir |-> 0,
     pending |-> NoError,
     result |-> NoError]

Raise(r, exc) == run' = [run EXCEPT ![r].pc = "raised", ![r].result = exc]

\* "if not os.path.exists(...)": the two checks at the top of burn_captions
burn_check_inputs(r) ==
    /\ run[r].pc = "start"
    /\ IF ~args[r].video_exists
       THEN Raise(r, [type |-> "FileNotFoundError", text |-> "Video not found"])
       ELSE IF ~srtFile.exists
       THEN Raise(r, [type |-> "FileNotFoundError", text |-> "SRT not found"])
       ELSE run' = [run EXCEPT ![r].pc = "probe"]
    /\ UNCHANGED <<args, self_temp_dir, tempDirs, outFile, ffmpegCalls>>
    /\ UNCHANGED segVars
    /\ UNCHANGED layVars
    /\ UNCHANGED asmVars
    /\ UNCHANGED srtVars

\* video_info = self._get_video_info(video_path) and the three lookups
burn_get_video_info(r) ==
    /\ run[r].pc = "probe"
    /\ LET got == get_video_info(args[r].probe)
       IN IF got.exc # NoError THEN Raise(r, got.exc)
          ELSE IF read_video_info(got.info) # NoError
          THEN Raise(r, read_video_info(got.info))
          ELSE run' = [run EXCEPT ![r].pc = "parse"]
    /\ UNCHANGED <<args, self_temp_dir, tempDirs, outFile, ffmpegCalls>>
    /\ UNCHANGED segVars
    /\ UNCHANGED layVars
    /\ UNCHANGED asmVars
    /\ UNCHANGED srtVars

\* subtitles = self.parse_srt(srt_path)
burn_parse_srt(r) ==
    /\ run[r].pc = "parse"
    /\ LET got == parse_srt(srtFile.content)
       IN IF got.raised # "none"
          THEN Raise(r, [type |-> got.raised, text |-> "parse_srt"])
          ELSE run' = [run EXCEPT ![r].pc = "mkdtemp",
                                  ![r].subtitles = got.subtitles]
    /\ UNCHANGED <<args, self_temp_dir, tempDirs, outFile, ffmpegCalls>>
    /\ UNCHANGED segVars
    /\ UNCHANGED layVars
    /\ UNCHANGED asmVars
    /\ UNCHANGED srtVars

\* self.temp_dir = tempfile.mkdtemp(): a new, empty directory
burn_mkdtemp(r) ==
    /\ run[r].pc = "mkdtemp"
    /\ tempDirs' = Append(tempDirs, [exists |-> TRUE, files |-> {}])
    /\ self_temp_dir' = [self_temp_dir EXCEPT ![args[r].inst] = Len(tempDirs) + 1]
    /\ run' = [run EXCEPT ![r].pc = "render", ![r].own_dir = Len(tempDirs) + 1]
    /\ UNCHANGED <<args, outFile, ffmpegCalls>>
    /\ UNCHANGED segVars
    /\ UNCHANGED layVars
    /\ UNCHANGED asmVars
    /\ UNCHANGED srtVars

\* one iteration of "for sub in subtitles": render, place and save the image
\* of the next cue; rendering or saving may fail
burn_render_caption(r) ==
    /\ run[r].pc = "render"
    /\ Len(run[r].caption_files) < Len(run[r].subtitles)
    /\ LET sub == run[r].subtitles[Len(run[r].caption_files) + 1]
           dir == self_temp_dir[args[r].inst]
       IN \E ok \in BOOLEAN :
            IF ok /\ tempDirs[dir].exists
            THEN /\ tempDirs' = [tempDirs EXCEPT ![dir].files = @ \cup {sub.index}]
                 /\ run' = [run EXCEPT ![r].caption_files =
                                Append(@, caption_file(sub, dir, args[r].style))]
            ELSE /\ run' = [run EXCEPT ![r].pc = "finally",
                                       ![r].pending = [type |-> "RenderError",
                                                       text |-> "render"]]
                 /\ UNCHANGED tempDirs
    /\ UNCHANGED <<args, self_temp_dir, outFile, ffmpegCalls>>
    /\ UNCHANGED segVars
    /\ UNCHANGED layVars
    /\ UNCHANGED asmVars
    /\ UNCHANGED srtVars

\* after the loop: filter_complex and the command line
burn_build_cmd(r) ==
    /\ run[r].pc = "render"
    /\ Len(run[r].caption_files) = Len(run[r].subtitles)
    /\ run' = [run EXCEPT ![r].pc = "encode",
                          ![r].cmd = build_cmd(run[r].caption_files, r)]
    /\ UNCHANGED <<args, self_temp_dir, tempDirs, outFile, ffmpegCalls>>
    /\ UNCHANGED segVars
    /\ UNCHANGED layVars
    /\ UNCHANGED asmVars
    /\ UNCHANGED srtVars

\* subprocess.run(cmd): ffmpeg succeeds and leaves the complete output, or
\* fails, before or after it started to write output_path; a non-zero exit
\* raises RuntimeError with ffmpeg's stderr
burn_run_ffmpeg(r) ==
    /\ run[r].pc = "encode"
    /\ ffmpegCalls' = [ffmpegCalls EXCEPT ![r] = @ + 1]
    /\ \E outcome \in {"ok", "failed_early", "failed_late"} :
          /\ outcome # "failed_early" => cmd_runnable(run[r].cmd)
          /\ outFile' = [outFile EXCEPT ![r] =
                            IF outcome = "ok" THEN "complete"
                            ELSE IF outcome = "failed_late" THEN "partial"
                            ELSE @]
          /\ run' = [run EXCEPT
                        ![r].pc = "finally",
                        ![r].pending =
                            IF outcome = "ok" THEN NoError
                            ELSE [type |-> "RuntimeError", text |-> "ffmpeg stderr"]]
    /\ UNCHANGED <<args, self_temp_dir, tempDirs>>
    /\ UNCHANGED segVars
    /\ UNCHANGED layVars
    /\ UNCHANGED asmVars
    /\ UNCHANGED srtVars

\* variant whose finally block removes nothing
burn_finally_no_cleanup(r) ==
    /\ run[r].pc = "finally"
    /\ run' = [run EXCEPT ![r].pc = IF run[r].pending = NoError
                                    THEN "returned" ELSE "raised",
                          ![r].result = run[r].pending]
    /\ UNCHANGED <<args, self_temp_dir, tempDirs, outFile, ffmpegCalls>>
    /\ UNCHANGED segVars
    /\ UNCHANGED layVars
    /\ UNCHANGED asmVars
    /\ UNCHANGED srtVars

\* the finally block: remove self.temp_dir if it is set and exists; then the
\* pending exception propagates or output_path is returned
burn_finally(r) ==
    /\ run[r].pc = "finally"
    /\ LET dir == self_temp_dir[args[r].inst]
       IN IF dir # 0 /\ tempDirs[dir].exists
          THEN tempDirs' = [tempDirs EXCEPT ![dir] = [exists |-> FALSE, files |-> {}]]
          ELSE UNCHANGED tempDirs
    /\ run' = [run EXCEPT ![r].pc = IF run[r].pending = NoError
                                    THEN "returned" ELSE "raised",
                          ![r].result = run[r].pending]
    /\ UNCHANGED <<args, self_temp_dir, outFile, ffmpegCalls>>
    /\ UNCHANGED segVars
    /\ UNCHANGED layVars
    /\ UNCHANGED asmVars
    /\ UNCHANGED srtVars

\* _process_single_video_assembly: once the item's subtitle file is written,
\* "burner = CaptionBurner()" and "burner.burn_captions(...)"
call_burn_captions(r) ==
    /\ pcSrt = "generated"
    /\ run[r].pc = "idle"
    /\ run' = [run EXCEPT ![r].pc = "start"]
    /\ UNCHANGED <<args, self_temp_dir, tempDirs, outFile, ffmpegCalls>>
    /\ UNCHANGED segVars
    /\ UNCHANGED layVars
    /\ UNCHANGED asmVars
    /\ UNCHANGED srtVars

burn_captions(r) ==
    \/ burn_check_inputs(r)
    \/ burn_get_video_info(r)
    \/ burn_parse_srt(r)
    \/ burn_mkdtemp(r)
    \/ burn_render_caption(r)
    \/ burn_build_cmd(r)
    \/ burn_run_ffmpeg(r)
    \/ burn_finally(r)

----------------------------------------------------------------------------
(* Layout: _wrap_text and the position computation on their own inputs *)

\* lines = self._wrap_text(text, font, style.max_width)
wrap_text_call ==
    /\ wrap.pc = "start"
    /\ wrap' = [wrap EXCEPT !.pc = "wrapped",
                            !.lines = wrap_text(wrap.text, wrap.style)]
    /\ UNCHANGED <<place, canvas>>
    /\ UNCHANGED segVars
    /\ UNCHANGED srtVars
    /\ UNCHANGED burnVars
    /\ UNCHANGED asmVars

\* _wrap_text applied again, with the same max_width, to each returned line
rewrap_lines ==
    /\ wrap.pc = "wrapped"
    /\ wrap' = [wrap EXCEPT !.pc = "rewrapped",
                            !.relines = [k \in 1..Len(wrap.lines) |->
                                            wrap_text(wrap.lines[k], wrap.style)]]
    /\ UNCHANGED <<place, canvas>>
    /\ UNCHANGED segVars
    /\ UNCHANGED srtVars
    /\ UNCHANGED burnVars
    /\ UNCHANGED asmVars

\* the "Calculate position" lines of burn_captions for one image
place_caption ==
    /\ place.pc = "start"
    /\ place' = [place EXCEPT !.pc = "placed",
                              !.x = image_x(place.frame.width, place.img),
                              !.y = image_y(place.frame.height, place.img,
                                            place.style)]
    /\ UNCHANGED <<wrap, canvas>>
    /\ UNCHANGED segVars
    /\ UNCHANGED srtVars
    /\ UNCHANGED burnVars
    /\ UNCHANGED asmVars

NoWrap == [pc |-> "idle", text |-> <<>>, style |-> DefaultStyle,
           lines |-> <<>>, relines |-> <<>>]

NoPlace == [pc |-> "idle", frame |-> [width |-> 0, height |-> 0],
            img |-> [width |-> 0, height |-> 0], style |-> DefaultStyle,
            x |-> 0, y |-> 0]

\* create_caption_image on its own arguments: Image.new refuses a negative
\* size, otherwise the lines are drawn and the image is returned
create_caption_image ==
    /\ canvas.pc = "start"
    /\ LET img == caption_image_size(canvas.text, canvas.style)
       IN IF img.width < 0 \/ img.height < 0
          THEN canvas' = [canvas EXCEPT !.pc = "raised", !.img = img]
          ELSE canvas' = [canvas EXCEPT
                             !.pc = "returned",
                             !.img = img,
                             !.stamps = glyph_stamps(canvas.text, canvas.style)]
    /\ UNCHANGED <<wrap, place>>
    /\ UNCHANGED segVars
    /\ UNCHANGED srtVars
    /\ UNCHANGED burnVars
    /\ UNCHANGED asmVars

NoCanvas == [pc |-> "idle", text |-> <<>>, style |-> DefaultStyle,
             img |-> [width |-> 0, height |-> 0], stamps |-> {}]

LayIdle == wrap = NoWrap /\ place = NoPlace /\ canvas = NoCanvas

----------------------------------------------------------------------------
(* VideoPipeline.run: the phases over the pending items *)

Rows == {1, 2}

\* stitched: whether ffmpeg was started on the list; concat_read: the
\* list it found in the file
NoWorker == [pc |-> "idle", clip_paths |-> <<>>, stitched |-> FALSE,
             concat_read |-> <<>>]

NoConcatFile == [exists |-> FALSE, lines |-> <<>>]

\* config.video_settings["clip_duration"], milliseconds
clip_duration == 4000

\* ThreadPoolExecutor(max_workers=2) of _assemble_videos_bulk
max_workers == 2

\* the dict that _fetch_pending_scripts builds for a row; a key that is not
\* set yet is an empty sequence, and audio_duration 0 is what
\* item.get("audio_duration", 0) reads while the key is missing
NewItem(script_text) ==
    [script_text |-> script_text,
     status |-> "Pending",
     files |-> {},
     audio_duration |-> 0,
     num_images |-> 0,
     prompts |-> <<>>,
     image_paths |-> <<>>,
     final_path |-> FALSE]

ScriptTexts == { <<>>, <<"s", "c", "r", "i", "p", "t">> }

\* what VoiceGenerator.generate_batch reports for one text
AudioResults ==
    { [success |-> FALSE, duration |-> 0],
      [success |-> TRUE, duration |-> 3000],
      [success |-> TRUE, duration |-> 6000] }

\* math.ceil(a / b) for positive b
ceil(a, b) == (a + b - 1) \div b

\* _fetch_pending_scripts: the rows found become items and are marked as
\* being processed; any error yields no items, and run returns
fetch_pending_scripts ==
    /\ phase = "fetch"
    /\ \/ \E found \in SUBSET Rows :
             /\ items' \in [found -> {NewItem(t) : t \in ScriptTexts}]
             /\ sheet' = [row \in Rows |->
                             IF row \in found THEN "Processing" ELSE sheet[row]]
             /\ phase' = IF found = {} THEN "returned" ELSE "audio"
       \/ /\ items' = <<>>
          /\ phase' = "returned"
          /\ UNCHANGED sheet
    /\ UNCHANGED <<worker, concat_file>>
    /\ UNCHANGED segVars
    /\ UNCHANGED srtVars
    /\ UNCHANGED burnVars
    /\ UNCHANGED layVars

\* _generate_audio_bulk: items with a script get audio or "Failed Audio";
\* an error of the generator as a whole is logged and changes nothing
generate_audio_bulk ==
    /\ phase = "audio"
    /\ LET texts == {row \in DOMAIN items : items[row].script_text # <<>>}
       IN IF texts = {} THEN UNCHANGED items
          ELSE \/ UNCHANGED items
               \/ \E results \in [texts -> AudioResults] :
                     items' = [row \in DOMAIN items |->
                         IF row \in texts /\ results[row].success
                         THEN [items[row] EXCEPT
                                  !.files = @ \cup {"audio"},
                                  !.audio_duration = results[row].duration]
                         ELSE [items[row] EXCEPT !.status = "Failed Audio"]]
    /\ phase' = "srt"
    /\ UNCHANGED <<worker, concat_file, sheet>>
    /\ UNCHANGED segVars
    /\ UNCHANGED srtVars
    /\ UNCHANGED burnVars
    /\ UNCHANGED layVars

\* _generate_srt_bulk: pending items with audio get a subtitle file or
\* "Failed SRT"; an error of the generator as a whole changes nothing
generate_srt_bulk ==
    /\ phase = "srt"
    /\ LET mapping == {row \in DOMAIN items :
                          /\ "audio" \in items[row].files
                          /\ items[row].status = "Pending"}
       IN IF mapping = {} THEN UNCHANGED items
          ELSE \/ UNCHANGED items
               \/ \E res_map \in [mapping -> BOOLEAN] :
                     items' = [row \in DOMAIN items |->
                         IF row \notin mapping THEN items[row]
                         ELSE IF res_map[row]
                         THEN [items[row] EXCEPT !.files = @ \cup {"srt"}]
                         ELSE [items[row] EXCEPT !.status = "Failed SRT"]]
    /\ phase' = "prompts"
    /\ UNCHANGED <<worker, concat_file, sheet>>
    /\ UNCHANGED segVars
    /\ UNCHANGED srtVars
    /\ UNCHANGED burnVars
    /\ UNCHANGED layVars

\* _generate_prompts_bulk: every pending item gets num_images and one
\* prompt per image, generated or the fallback
generate_prompts_bulk ==
    /\ phase = "prompts"
    /\ \E source \in [DOMAIN items -> {"generated", "fallback"}] :
          items' = [row \in DOMAIN items |->
              IF items[row].status # "Pending" THEN items[row]
              ELSE LET num_images == ceil(items[row].audio_duration, clip_duration)
                       n == IF num_images > 1 THEN num_images ELSE 1
                   IN [items[row] EXCEPT
                          !.num_images = n,
                          !.prompts = [k \in 1..n |-> source[row]]]]
    /\ phase' = "images"
    /\ UNCHANGED <<worker, concat_file, sheet>>
    /\ UNCHANGED segVars
    /\ UNCHANGED srtVars
    /\ UNCHANGED burnVars
    /\ UNCHANGED layVars

\* _generate_images_bulk: one image per prompt of every pending item,
\* generated or the black fallback image; an error of the generator as a
\* whole leaves the items without image_paths
generate_images_bulk ==
    /\ phase = "images"
    /\ LET jobs == {row \in DOMAIN items :
                       /\ items[row].status = "Pending"
                       /\ items[row].prompts # <<>>}
       IN IF jobs = {} THEN UNCHANGED items
          ELSE \/ UNCHANGED items
               \/ \E paths \in [jobs -> {"generated", "fallback"}] :
                     items' = [row \in DOMAIN items |->
                         IF row \notin jobs THEN items[row]
                         ELSE [items[row] EXCEPT
                                  !.image_paths =
                                      [k \in 1..items[row].num_images |-> paths[row]]]]
    /\ phase' = "assembly"
    /\ UNCHANGED <<worker, concat_file, sheet>>
    /\ UNCHANGED segVars
    /\ UNCHANGED srtVars
    /\ UNCHANGED burnVars
    /\ UNCHANGED layVars

\* variant that submits every item, whatever its status
assembly_submits_any(item) == TRUE

\* "if item["status"] == "Pending"" of _assemble_videos_bulk
assembly_submits(item) == item.status = "Pending"

\* _assemble_videos_bulk, first loop: one future per pending item
assemble_videos_bulk ==
    /\ phase = "assembly"
    /\ worker' = [row \in Rows |->
                     IF row \in DOMAIN items /\ assembly_submits(items[row])
                     THEN [NoWorker EXCEPT !.pc = "queued"]
                     ELSE worker[row]]
    /\ phase' = "assembling"
    /\ UNCHANGED <<items, concat_file, sheet>>
    /\ UNCHANGED segVars
    /\ UNCHANGED srtVars
    /\ UNCHANGED burnVars
    /\ UNCHANGED layVars

running(row) == worker[row].pc \notin {"idle", "queued", "returned"}

\* the clip files made for an item, in image order
clip_paths_of(row) ==
    [k \in 1..Len(items[row].image_paths) |-> [item |-> row, clip |-> k - 1]]

\* the handler "except Exception" of _process_single_video_assembly
assembly_failed(row) ==
    /\ items' = [items EXCEPT ![row].status = "Failed Assembly"]
    /\ worker' = [worker EXCEPT ![row].pc = "returned"]

\* _process_single_video_assembly up to the call of stitch_videos, on a
\* free thread of the pool: the check of the images, then the clips
process_single_video_assembly(row) ==
    /\ phase = "assembling"
    /\ worker[row].pc = "queued"
    /\ Cardinality({other \in Rows : running(other)}) < max_workers
    /\ IF items[row].image_paths = <<>>
       THEN /\ items' = [items EXCEPT ![row].status = "Failed Images"]
            /\ worker' = [worker EXCEPT ![row].pc = "returned"]
       ELSE \/ /\ worker' = [worker EXCEPT ![row].pc = "stitch_open",
                                           ![row].clip_paths = clip_paths_of(row)]
               /\ UNCHANGED items
            \/ assembly_failed(row)
    /\ UNCHANGED <<phase, concat_file, sheet>>
    /\ UNCHANGED segVars
    /\ UNCHANGED srtVars
    /\ UNCHANGED burnVars
    /\ UNCHANGED layVars

\* stitch_videos: open("concat_list.txt", 'w') creates or truncates the file
stitch_open(row) ==
    /\ worker[row].pc = "stitch_open"
    /\ concat_file' = [exists |-> TRUE, lines |-> <<>>]
    /\ worker' = [worker EXCEPT ![row].pc = "stitch_write"]
    /\ UNCHANGED <<items, phase, sheet>>
    /\ UNCHANGED segVars
    /\ UNCHANGED srtVars
    /\ UNCHANGED burnVars
    /\ UNCHANGED layVars

\* stitch_videos: the lines "file '<path>'" reach the file when the with
\* block closes it
stitch_write(row) ==
    /\ worker[row].pc = "stitch_write"
    /\ concat_file' = [exists |-> TRUE, lines |-> worker[row].clip_paths]
    /\ worker' = [worker EXCEPT ![row].pc = "stitch_run"]
    /\ UNCHANGED <<items, phase, sheet>>
    /\ UNCHANGED segVars
    /\ UNCHANGED srtVars
    /\ UNCHANGED burnVars
    /\ UNCHANGED layVars

\* stitch_videos: ffmpeg reads the list that the file holds now and
\* concatenates it, or fails (always on an empty list): RuntimeError
stitch_run(row) ==
    /\ worker[row].pc = "stitch_run"
    /\ \/ /\ concat_file.lines # <<>>
          /\ worker' = [worker EXCEPT ![row].pc = "add_voice",
                                      ![row].stitched = TRUE,
                                      ![row].concat_read = concat_file.lines]
          /\ UNCHANGED items
       \/ /\ items' = [items EXCEPT ![row].status = "Failed Assembly"]
          /\ worker' = [worker EXCEPT ![row].pc = "returned",
                                      ![row].stitched = TRUE,
                                      ![row].concat_read = concat_file.lines]
    /\ UNCHANGED <<phase, concat_file, sheet>>
    /\ UNCHANGED segVars
    /\ UNCHANGED srtVars
    /\ UNCHANGED burnVars
    /\ UNCHANGED layVars

\* the rest of _process_single_video_assembly: add_voice reads
\* item["files"]["audio"], burn_captions reads item["files"]["srt"] (a
\* missing key raises KeyError), each may fail; then the script is saved
\* and the item is marked Done
finish_video_assembly(row) ==
    /\ worker[row].pc = "add_voice"
    /\ \/ /\ {"audio", "srt"} \subseteq items[row].files
          /\ items' = [items EXCEPT ![row].status = "Done",
                                    ![row].final_path = TRUE]
          /\ worker' = [worker EXCEPT ![row].pc = "returned"]
       \/ assembly_failed(row)
    /\ UNCHANGED <<phase, concat_file, sheet>>
    /\ UNCHANGED segVars
    /\ UNCHANGED srtVars
    /\ UNCHANGED burnVars
    /\ UNCHANGED layVars

\* _assemble_videos_bulk, second loop: every future has completed
assemble_videos_join ==
    /\ phase = "assembling"
    /\ \A row \in Rows : worker[row].pc \in {"idle", "returned"}
    /\ phase' = "update"
    /\ UNCHANGED <<items, worker, concat_file, sheet>>
    /\ UNCHANGED segVars
    /\ UNCHANGED srtVars
    /\ UNCHANGED burnVars
    /\ UNCHANGED layVars

\* _update_sheets: the status of every item that is not Pending is written
update_sheets ==
    /\ phase = "update"
    /\ sheet' = [row \in Rows |->
                    IF row \in DOMAIN items /\ items[row].status # "Pending"
                    THEN items[row].status ELSE sheet[row]]
    /\ phase' = "complete"
    /\ UNCHANGED <<items, worker, concat_file>>
    /\ UNCHANGED segVars
    /\ UNCHANGED srtVars
    /\ UNCHANGED burnVars
    /\ UNCHANGED layVars

AsmIdle ==
    /\ items = <<>>
    /\ phase = "idle"
    /\ worker = [row \in Rows |-> NoWorker]
    /\ concat_file = NoConcatFile
    /\ sheet = [row \in Rows |-> "idle"]

----------------------------------------------------------------------------
(* Specifications *)

SegIdle ==
    /\ words = <<>>
    /\ config = DefaultConfig
    /\ pcSeg = "idle"
    /\ i = 0
    /\ index = 1

SrtIdle ==
    /\ srtFile = NoFile
    /\ parsed = NothingParsed
    /\ pcSrt = "idle"

DefaultArgs ==
    [video_exists |-> TRUE, probe |-> GoodProbe, style |-> DefaultStyle, inst |-> 1]

\* no burn_captions call has started; every CaptionBurner has temp_dir = None
BurnIdle ==
    /\ args = [r \in Runs |-> [DefaultArgs EXCEPT !.inst = r]]
    /\ run = [r \in Runs |-> FreshRun]
    /\ self_temp_dir = [b \in Instances |-> 0]
    /\ tempDirs = <<>>
    /\ outFile = [r \in Runs |-> "absent"]
    /\ ffmpegCalls = [r \in Runs |-> 0]

\* group_words on every token stream and configuration
Init == SegInit /\ SrtIdle /\ BurnIdle /\ LayIdle /\ AsmIdle

Next == SegNext

Spec == Init /\ [][Next]_vars

\* group_words on the streams whose words all have a positive duration
InitPositive ==
    /\ words \in PositiveWordStreams
    /\ config \in Configs
    /\ pcSeg = "start"
    /\ i = 0
    /\ index = 1
    /\ subtitles = <<>>
    /\ SrtIdle
    /\ BurnIdle
    /\ LayIdle
    /\ AsmIdle

SpecPositive == InitPositive /\ [][Next]_vars

\* _prevent_overlaps on computed cue lists.  The times are those of Scenario
\* B and one end past 2.3; starts and ends are free, as the scenario's are
OverlapTimes == {2000, 2050, 2350, 2400}

ComputedCueLists ==
    UNION { { [k \in 1..n |-> SubtitleEntry(k, st[k], en[k], <<"x">>)] :
                st \in [1..n -> OverlapTimes], en \in [1..n -> OverlapTimes] } :
            n \in 0..MaxOverlapCues }

InitOverlap ==
    /\ words = <<>>
    /\ config \in {[DefaultConfig EXCEPT !.min_gap_between_subtitles = g] :
                      g \in MinGapValues}
    /\ pcSeg = "computed"
    /\ i = 0
    /\ index = 1
    /\ subtitles \in ComputedCueLists
    /\ SrtIdle
    /\ BurnIdle
    /\ LayIdle
    /\ AsmIdle

NextOverlap == call_prevent_overlaps

SpecOverlap == InitOverlap /\ [][NextOverlap]_vars

\* _wrap_text on texts of up to MaxWrapWords words, the position computation
\* on frames, images and margins
WrapVocab == { <<"a">>, <<"b", "b">>, <<"d", "d", "d", "d">> }

\* texts with blank runs, with a line break, without any word, and the one
\* word "a" * 50
OddTexts ==
    { <<>>, <<" ">>,
      <<" ", "a", " ", " ", "b", "b", " ">>,
      <<"a", "\n", "d", "d", "d", "d">>,
      [k \in 1..50 |-> "a"] }

WrapTexts ==
    { join(" ", ws) : ws \in UNION { [1..n -> WrapVocab] : n \in 0..MaxWrapWords } }
    \cup OddTexts

WrapWidths == {0, 72, 1800}        \* max_width, pixels

Frames == { [width |-> 1280, height |-> 720], [width |-> 720, height |-> 1280] }
ImageSizes == { [width |-> 400, height |-> 100], [width |-> 401, height |-> 101],
                [width |-> 1400, height |-> 800] }
Margins == {0, 50}

InitLayout ==
    /\ SegIdle
    /\ subtitles = <<>>
    /\ SrtIdle
    /\ BurnIdle
    /\ AsmIdle
    /\ canvas = NoCanvas
    /\ \E t \in WrapTexts, w \in WrapWidths :
          wrap = [NoWrap EXCEPT !.pc = "start", !.text = t,
                                !.style = [DefaultStyle EXCEPT !.max_width = w]]
    /\ \E f \in Frames, g \in ImageSizes, m \in Margins, pos \in Positions :
          place = [NoPlace EXCEPT !.pc = "start", !.frame = f, !.img = g,
                                 !.style = [DefaultStyle EXCEPT !.margin = m,
                                                                !.position = pos]]

NextLayout ==
    \/ wrap_text_call
    \/ rewrap_lines
    \/ place_caption

SpecLayout == InitLayout /\ [][NextLayout]_vars

\* VideoPipeline.run from the fetch of the rows to the update of the sheet
InitVideoPipeline ==
    /\ SegIdle
    /\ subtitles = <<>>
    /\ SrtIdle
    /\ BurnIdle
    /\ LayIdle
    /\ items = <<>>
    /\ phase = "fetch"
    /\ worker = [row \in Rows |-> NoWorker]
    /\ concat_file \in {NoConcatFile, [exists |-> TRUE, lines |-> <<>>]}
    /\ sheet = [row \in Rows |-> "new"]

NextVideoPipeline ==
    \/ fetch_pending_scripts
    \/ generate_audio_bulk
    \/ generate_srt_bulk
    \/ generate_prompts_bulk
    \/ generate_images_bulk
    \/ assemble_videos_bulk
    \/ \E row \in Rows :
          \/ process_single_video_assembly(row)
          \/ stitch_open(row)
          \/ stitch_write(row)
          \/ stitch_run(row)
          \/ finish_video_assembly(row)
    \/ assemble_videos_join
    \/ update_sheets

SpecVideoPipeline == InitVideoPipeline /\ [][NextVideoPipeline]_vars

\* create_caption_image on texts of one and two lines, over outline widths,
\* background paddings and shadow offsets of either sign
CanvasTexts == { <<"a">>, <<"b", "b", " ", "d", "d", "d", "d">> }
CanvasWidths == {72, 1800}
OutlineWidths == {0, 3}
BackgroundPaddings == {0, 20}
ShadowOffsets == { <<3, 3>>, <<0, 0>>, <<-3, -3>>, <<0, 40>>, <<-30, 0>>, <<40, 0>> }

InitCanvas ==
    /\ SegIdle
    /\ subtitles = <<>>
    /\ SrtIdle
    /\ BurnIdle
    /\ AsmIdle
    /\ wrap = NoWrap
    /\ place = NoPlace
    /\ \E t \in CanvasTexts, w \in CanvasWidths, ow \in OutlineWidths,
          bp \in BackgroundPaddings, sh \in BOOLEAN, so \in ShadowOffsets :
          canvas = [NoCanvas EXCEPT
                       !.pc = "start", !.text = t,
                       !.style = [DefaultStyle EXCEPT !.max_width = w,
                                                      !.outline_width = ow,
                                                      !.background_padding = bp,
                                                      !.shadow = sh,
                                                      !.shadow_offset = so]]

NextCanvas == create_caption_image

SpecCanvas == InitCanvas /\ [][NextCanvas]_vars

\* generate_srt_content then parse_srt on valid cue lists; parse_srt on
\* hand-made files
InitSrt ==
    /\ SegIdle
    /\ BurnIdle
    /\ LayIdle
    /\ AsmIdle
    /\ parsed = NothingParsed
    /\ \/ /\ subtitles \in ValidCueLists
          /\ srtFile = NoFile
          /\ pcSrt = "cues"
       \/ /\ subtitles = <<>>
          /\ srtFile \in {[exists |-> TRUE, content |-> c] : c \in GivenFiles}
          /\ pcSrt = "file"

NextSrt ==
    \/ write_srt_content
    \/ parse_srt_file

SpecSrt == InitSrt /\ [][NextSrt]_vars

\* one burn_captions call on a subtitle file
BurnTimes == {0, 1000, 2500}
BurnTexts == { <<"h", "i">>, <<"a", " ", "b", ".">> }
MaxBurnCues == 2

RECURSIVE BurnCueLists(_, _)
BurnCueLists(n, t) ==
    IF n = 0 THEN {<<>>}
    ELSE UNION { { rest \o <<SubtitleEntry(n, p[1], p[2], txt)>> :
                      rest \in BurnCueLists(n - 1, p[1]) } :
                 txt \in BurnTexts,
                 p \in {q \in BurnTimes \X BurnTimes : q[1] < q[2] /\ q[2] <= t} }

BurnFiles ==
    {NoFile} \cup
    {[exists |-> TRUE, content |-> generate_srt_content(c)] :
        c \in UNION { BurnCueLists(n, Max(BurnTimes)) : n \in 0..MaxBurnCues }}

BurnArgs ==
    {[video_exists |-> v, probe |-> p,
      style |-> [DefaultStyle EXCEPT !.position = pos], inst |-> 1] :
        v \in BOOLEAN, p \in ProbeOutputs, pos \in Positions}

InitBurn ==
    /\ SegIdle
    /\ LayIdle
    /\ AsmIdle
    /\ subtitles = <<>>
    /\ srtFile \in BurnFiles
    /\ parsed = NothingParsed
    /\ pcSrt = "idle"
    /\ \E a \in BurnArgs :
          args = [r \in Runs |-> IF r = 1 THEN a ELSE [DefaultArgs EXCEPT !.inst = r]]
    /\ run = [r \in Runs |-> IF r = 1 THEN [FreshRun EXCEPT !.pc = "start"] ELSE FreshRun]
    /\ self_temp_dir = [b \in Instances |-> 0]
    /\ tempDirs = <<>>
    /\ outFile = [r \in Runs |-> "absent"]
    /\ ffmpegCalls = [r \in Runs |-> 0]

NextBurn == burn_captions(1)

SpecBurn == InitBurn /\ [][NextBurn]_vars

\* two burn_captions calls running at the same time on one subtitle file,
\* on one CaptionBurner or on two
InitConcurrent ==
    /\ SegIdle
    /\ LayIdle
    /\ AsmIdle
    /\ subtitles = <<>>
    /\ srtFile \in {f \in BurnFiles : f.exists}
    /\ parsed = NothingParsed
    /\ pcSrt = "idle"
    /\ \E b \in Instances :
          args = [r \in Runs |-> IF r = 1 THEN DefaultArgs
                                 ELSE [DefaultArgs EXCEPT !.inst = b]]
    /\ run = [r \in Runs |-> [FreshRun EXCEPT !.pc = "start"]]
    /\ self_temp_dir = [b \in Instances |-> 0]
    /\ tempDirs = <<>>
    /\ outFile = [r \in Runs |-> "absent"]
    /\ ffmpegCalls = [r \in Runs |-> 0]

NextConcurrent == \E r \in Runs : burn_captions(r)

SpecConcurrent == InitConcurrent /\ [][NextConcurrent]_vars

\* the two workers of _assemble_videos_bulk: each call is made on a
\* CaptionBurner of its own
InitAssembly == InitConcurrent /\ \A r \in Runs : args[r].inst = r

SpecAssembly == InitAssembly /\ [][NextConcurrent]_vars

\* the pipeline for one item: group_words (called by generate_srt, or on
\* its own with no words), generate_srt, burn_captions
MaxPipeWords == 2

PipeConfigs ==
    {[DefaultConfig EXCEPT !.grouping_strategy = g,
                           !.words_per_subtitle = 1,
                           !.max_duration_per_subtitle = 400,
                           !.max_chars_per_subtitle = 4,
                           !.smart_phrase_min_words_for_minor_punct = 1,
                           !.smart_phrase_max_words = 2,
                           !.end_phrase_extension = e,
                           !.min_gap_between_subtitles = m] :
        g \in {FIXED_WORD_COUNT, TIME_BASED, CHARACTER_COUNT, SMART_PHRASE},
        e \in ExtensionValues, m \in MinGapValues}

InitPipe ==
    /\ words \in UNION { WordStreams(n, 0, 1) : n \in 0..MaxPipeWords }
    /\ config \in PipeConfigs
    /\ pcSeg = "start"
    /\ i = 0
    /\ index = 1
    /\ subtitles = <<>>
    /\ SrtIdle
    /\ BurnIdle
    /\ LayIdle
    /\ AsmIdle

NextPipe ==
    \/ generate_srt_no_words
    \/ group_words_empty
    \/ group_words_dispatch
    \/ group_words_fixed_count
    \/ group_words_time_based
    \/ group_words_character_count
    \/ group_words_smart_phrase
    \/ return_prevent_overlaps
    \/ generate_srt
    \/ call_burn_captions(1)
    \/ burn_captions(1)

SpecPipe == InitPipe /\ [][NextPipe]_vars

----------------------------------------------------------------------------
(* Properties of the Segmenter *)

Returned == pcSeg = "returned"

\* number of words joined into a cue text (tokens hold no space)
num_words(text) == 1 + Cardinality({k \in 1..Len(text) : text[k] = " "})

RECURSIVE words_before(_, _)
words_before(subs, k) ==
    IF k <= 1 THEN 0 ELSE words_before(subs, k - 1) + num_words(subs[k - 1].text)

\* the last input word of cue k
last_word_of(subs, k) == words[words_before(subs, k) + num_words(subs[k].text)]

no_punctuation(ws) ==
    \A k \in 1..Len(ws) : ~has_punct(ws[k].word, punctuation_marks)

\* C1: in the list returned by group_words every adjacent pair of cues
\* satisfies cue[k].end + min_gap <= cue[k+1].start, for every strategy.
C1_NonOverlap ==
    Returned =>
        \A k \in 1..(Len(subtitles) - 1) :
            subtitles[k].end_time + config.min_gap_between_subtitles
                <= subtitles[k + 1].start_time

\* a returned list in which the punctuation extension had pushed a cue's end
\* past the next cue's start before the overlap pass
C1_Witness ==
    /\ Returned
    /\ config.end_phrase_extension > 0
    /\ \E k \in 1..(Len(subtitles) - 1) :
          /\ has_punct(subtitles[k].text, major_punctuation)
          /\ last_word_of(subtitles, k).end + config.end_phrase_extension
                > subtitles[k + 1].start_time
          /\ subtitles[k].end_time
                = subtitles[k + 1].start_time - config.min_gap_between_subtitles

\* C2: every cue returned by group_words has start_time < end_time.
C2_StartBeforeEnd ==
    Returned =>
        \A k \in 1..Len(subtitles) :
            subtitles[k].start_time < subtitles[k].end_time

\* C3: on a stream without punctuation every iteration of the outer loop of
\* the fixed-count, time-based and character-count strategies consumes at
\* least one word (so the loop ends after at most len(words) iterations).
C3_Progress ==
    [][(/\ pcSeg = "loop"
        /\ i < Len(words)
        /\ config.grouping_strategy \in {FIXED_WORD_COUNT, TIME_BASED, CHARACTER_COUNT}
        /\ no_punctuation(words))
       => i' > i]_vars

\* C4: the indices of the returned cues are 1..N in list order.
C4_Indices ==
    Returned => \A k \in 1..Len(subtitles) : subtitles[k].index = k

\* a returned list of at least two cues
C4_Witness == Returned /\ Len(subtitles) >= 2

\* C11: Scenario A.  For the words [("Hello", 0.0, 0.4), ("world.", 0.4, 0.9)]
\* under the fixed-word-count strategy with words_per_subtitle = 2 and
\* end_phrase_extension = 0.3, group_words returns exactly one cue
\* {index 1, start 0.0, end 1.2, text "Hello world."}.
C11_ScenarioA ==
    (/\ Returned
     /\ words = ScenarioAWords
     /\ config.grouping_strategy = FIXED_WORD_COUNT
     /\ config.words_per_subtitle = 2
     /\ config.end_phrase_extension = 300)
    => subtitles = << SubtitleEntry(1, 0, 1200,
                                    <<"H", "e", "l", "l", "o", " ",
                                      "w", "o", "r", "l", "d", ".">>) >>

\* group_words has returned for the words and the settings of Scenario A
C11_Witness ==
    /\ Returned
    /\ words = ScenarioAWords
    /\ config.grouping_strategy = FIXED_WORD_COUNT
    /\ config.words_per_subtitle = 2
    /\ config.end_phrase_extension = 300
    /\ Len(subtitles) = 1

\* the two cues of Scenario B: starts [2.0, 2.4], ends [2.0, 2.05]
ScenarioBCues ==
    << SubtitleEntry(1, 2000, 2000, <<"x">>), SubtitleEntry(2, 2400, 2050, <<"x">>) >>

\* C12 as stated: Scenario B.  For two cues computed with ends [2.0, 2.05]
\* and starts [2.0, 2.4] under min_gap = 0.1 the overlap-prevention pass
\* clamps the first cue's end to 2.3.
C12_ScenarioB ==
    [][(/\ pcSeg = "computed"
        /\ subtitles = ScenarioBCues
        /\ config.min_gap_between_subtitles = 100)
       => subtitles'[1].end_time = 2300]_vars

\* C12 as amended: for two cues with starts [2.0, 2.4] under min_gap = 0.1
\* the pass clamps the first cue's end to 2.3 exactly when that end is
\* greater than 2.3; with the ends [2.0, 2.05] of Scenario B the first end
\* stays 2.0.
C12_ScenarioBAmended ==
    [][(/\ pcSeg = "computed"
        /\ Len(subtitles) = 2
        /\ subtitles[1].start_time = 2000
        /\ subtitles[2].start_time = 2400
        /\ config.min_gap_between_subtitles = 100)
       => /\ subtitles'[1].end_time =
                IF subtitles[1].end_time > 2300 THEN 2300
                ELSE subtitles[1].end_time
          /\ subtitles = ScenarioBCues => subtitles'[1].end_time = 2000]_vars

\* the pass has run on the cues of Scenario B and left the first end at 2.0
C12_Witness ==
    /\ pcSeg = "clamped"
    /\ config.min_gap_between_subtitles = 100
    /\ subtitles = ScenarioBCues

\* the step appends a cue under the given strategy
emits(strategy) ==
    /\ pcSeg = "loop"
    /\ config.grouping_strategy = strategy
    /\ Len(subtitles') = Len(subtitles) + 1

\* the text of the n words that follow position i0 of the stream
text_of(i0, n) == join(" ", [k \in 1..n |-> words[i0 + k].word])

\* C19: under the fixed-word-count strategy with words_per_subtitle = N,
\* every emitted cue holds between 1 and N consecutive words, none of them
\* but the last ends in a configured punctuation mark, and it holds fewer
\* than N words only if its last word ends in a punctuation mark or the
\* stream is exhausted.
C19_FixedCount ==
    [][emits(FIXED_WORD_COUNT) =>
        LET cue == subtitles'[Len(subtitles')]
            n == num_words(cue.text)
            N == config.words_per_subtitle
        IN /\ 1 <= n /\ n <= N
           /\ i + n <= Len(words)
           /\ cue.text = text_of(i, n)
           /\ \A k \in 1..(n - 1) : ~has_punct(words[i + k].word, punctuation_marks)
           /\ n < N => \/ has_punct(words[i + n].word, punctuation_marks)
                       \/ i + n = Len(words)]_vars

\* a returned list whose first cue is shorter than N because its word ends
\* in a punctuation mark, followed by a cue of N words
C19_Witness ==
    /\ Returned
    /\ config.grouping_strategy = FIXED_WORD_COUNT
    /\ config.words_per_subtitle = 2
    /\ Len(subtitles) = 2
    /\ num_words(subtitles[1].text) = 1
    /\ has_punct(subtitles[1].text, punctuation_marks)
    /\ num_words(subtitles[2].text) = 2

\* C20: under the time-based strategy every emitted cue holds at least one
\* word; a cue of two or more words spans at most max_duration_per_subtitle
\* from its first word's start to its last word's end (before the
\* punctuation extension); and a cue stops before a word only because that
\* word would exceed the cap or because the cue's last word ends in a
\* configured punctuation mark.
C20_TimeBased ==
    [][emits(TIME_BASED) =>
        LET cue == subtitles'[Len(subtitles')]
            n == num_words(cue.text)
            cap == config.max_duration_per_subtitle
        IN /\ n >= 1
           /\ i + n <= Len(words)
           /\ i' = i + n
           /\ cue.text = text_of(i, n)
           /\ cue.start_time = words[i + 1].start
           /\ n >= 2 => words[i + n].end - words[i + 1].start <= cap
           /\ i + n < Len(words) =>
                 \/ words[i + n + 1].end - words[i + 1].start > cap
                 \/ has_punct(words[i + n].word, punctuation_marks)]_vars

\* a returned list whose first cue holds two words and stopped, without
\* punctuation, because the third word would have exceeded the cap
C20_Witness ==
    /\ Returned
    /\ config.grouping_strategy = TIME_BASED
    /\ Len(subtitles) >= 2
    /\ num_words(subtitles[1].text) = 2
    /\ ~has_punct(subtitles[1].text, punctuation_marks)
    /\ words[3].end - words[1].start > config.max_duration_per_subtitle

\* C21: under the character-count strategy every emitted cue holds at
\* least one word; a cue of two or more words has a joined text (single
\* spaces) of at most max_chars_per_subtitle characters; and a cue stops
\* before a word only because the text with that word would exceed the cap
\* or because the cue's last word ends in a configured punctuation mark.
C21_CharacterCount ==
    [][emits(CHARACTER_COUNT) =>
        LET cue == subtitles'[Len(subtitles')]
            n == num_words(cue.text)
            cap == config.max_chars_per_subtitle
        IN /\ n >= 1
           /\ i + n <= Len(words)
           /\ i' = i + n
           /\ cue.text = text_of(i, n)
           /\ n >= 2 => Len(cue.text) <= cap
           /\ i + n < Len(words) =>
                 \/ Len(text_of(i, n + 1)) > cap
                 \/ has_punct(words[i + n].word, punctuation_marks)]_vars

\* a returned list whose first cue holds two words and stopped, without
\* punctuation, because the text with the third word would be too long
C21_Witness ==
    /\ Returned
    /\ config.grouping_strategy = CHARACTER_COUNT
    /\ Len(subtitles) >= 2
    /\ num_words(subtitles[1].text) = 2
    /\ ~has_punct(subtitles[1].text, punctuation_marks)
    /\ Len(text_of(0, 3)) > config.max_chars_per_subtitle

\* whether word k of the stream, as word number m of its cue, ends the cue
\* under the smart-phrase rules
smart_stop(k, m) ==
    \/ has_punct(words[k].word, major_punctuation)
    \/ /\ has_punct(words[k].word, minor_punctuation)
       /\ m >= config.smart_phrase_min_words_for_minor_punct
    \/ m >= config.smart_phrase_max_words

\* C22: under the smart-phrase strategy a cue ends exactly at the first
\* word that ends in major punctuation, or ends in minor punctuation while
\* the cue (that word included) holds at least
\* smart_phrase_min_words_for_minor_punct words, or brings the cue to
\* smart_phrase_max_words words: no earlier word of the cue is such a word,
\* and the cue's last word is one unless the stream ends there.  A word
\* ending in minor punctuation before the minimum does not end the cue.
C22_SmartPhrase ==
    [][emits(SMART_PHRASE) =>
        LET cue == subtitles'[Len(subtitles')]
            n == num_words(cue.text)
        IN /\ n >= 1
           /\ i + n <= Len(words)
           /\ i' = i + n
           /\ cue.text = text_of(i, n)
           /\ \A m \in 1..(n - 1) : ~smart_stop(i + m, m)
           /\ i + n < Len(words) => smart_stop(i + n, n)]_vars

\* a returned list whose first cue runs over a word with minor punctuation
\* that came before the minimum and ends at a later stop
C22_Witness ==
    /\ Returned
    /\ config.grouping_strategy = SMART_PHRASE
    /\ Len(subtitles) >= 1
    /\ num_words(subtitles[1].text) >= 2
    /\ has_punct(words[1].word, minor_punctuation)
    /\ config.smart_phrase_min_words_for_minor_punct = 2

\* C23: on every strategy an emitted cue starts at its first word's start
\* and, before the overlap pass, ends at its last word's end, plus
\* end_phrase_extension exactly when its last word ends in major
\* punctuation.
C23_Extension ==
    [][(pcSeg = "loop" /\ Len(subtitles') = Len(subtitles) + 1) =>
        LET cue == subtitles'[Len(subtitles')]
            n == num_words(cue.text)
            last == words[i + n]
        IN /\ i + n <= Len(words)
           /\ cue.text = text_of(i, n)
           /\ cue.start_time = words[i + 1].start
           /\ cue.end_time =
                 IF has_punct(last.word, major_punctuation)
                 THEN last.end + config.end_phrase_extension
                 ELSE last.end]_vars

\* a returned list with a cue ending in minor punctuation (not extended)
\* followed by a cue ending in major punctuation, under a positive extension
C23_Witness ==
    /\ Returned
    /\ config.end_phrase_extension > 0
    /\ Len(subtitles) >= 2
    /\ has_punct(subtitles[1].text, minor_punctuation)
    /\ has_punct(subtitles[2].text, major_punctuation)

\* the words of the cues, in index order
RECURSIVE cue_words(_)
cue_words(subs) ==
    IF subs = <<>> THEN <<>>
    ELSE split(subs[1].text, " ") \o cue_words(Tail(subs))

\* C27: for every strategy, at every point of the grouping loop and in the
\* returned list, the words of the cues emitted so far, in index order, are
\* exactly the input words up to the current position: no word is dropped,
\* duplicated or reordered.
C27_Partition ==
    pcSeg \in {"loop", "returned"} =>
        cue_words(subtitles) = [k \in 1..i |-> words[k].word]

\* the return value of generate_srt, once it has returned
generate_srt_returned(value) ==
    IF value THEN pcSrt = "generated" ELSE pcSrt \in {"no_words", "no_subtitles"}

\* C16: with zero tokens group_words returns the empty list under every
\* strategy (it never enters a grouping loop and raises nothing), and
\* generate_srt returns False and writes no subtitle file.
C16_ZeroTokens ==
    words = <<>> =>
        /\ pcSeg \in {"start", "returned", "skipped"}
        /\ pcSeg = "returned" => subtitles = <<>>
        /\ pcSrt # "idle" => generate_srt_returned(FALSE)
        /\ ~srtFile.exists

\* generate_srt has returned False for a transcript without words
C16_Witness ==
    /\ words = <<>>
    /\ pcSrt = "no_words"
    /\ ~srtFile.exists

----------------------------------------------------------------------------
(* Properties of the subtitle file format *)

\* C5: parse_srt applied to the text that generate_srt_content produced for
\* a valid cue list returns the same cues (count, order, index, start, end
\* and text).
C5_RoundTrip ==
    pcSrt = "reparsed" =>
        parsed.raised = "none" /\ parsed.subtitles = subtitles

blocks_of(content) == re_split_blank(strip(content))

block_lines(block) == split(strip(block), NL)

well_formed(block) ==
    LET lines == block_lines(block)
    IN /\ Len(lines) >= 3
       /\ int_ok(lines[1])
       /\ time_line_match(lines[2]) # 0

cue_of(block) ==
    LET lines == block_lines(block)
    IN SubtitleEntry(int_value(lines[1]),
                     stamp_value(lines[2], 1),
                     stamp_value(lines[2], time_line_match(lines[2])),
                     join(NL, SubSeq(lines, 3, Len(lines))))

RECURSIVE cues_of_well_formed(_)
cues_of_well_formed(blocks) ==
    IF blocks = <<>> THEN <<>>
    ELSE (IF well_formed(blocks[1]) THEN <<cue_of(blocks[1])>> ELSE <<>>)
         \o cues_of_well_formed(Tail(blocks))

\* C10: parse_srt never aborts on a malformed block; it returns exactly the
\* cues of the well-formed blocks (at least 3 lines, parsable index, matching
\* time line), in file order.
C10_SkipMalformed ==
    pcSrt = "parsed" =>
        /\ parsed.raised = "none"
        /\ parsed.subtitles = cues_of_well_formed(blocks_of(srtFile.content))

\* a parsed file that held a block with an unparsable index, another
\* malformed block and a well-formed block
C10_Witness ==
    /\ pcSrt = "parsed"
    /\ LET blocks == blocks_of(srtFile.content)
       IN /\ \E k \in 1..Len(blocks) :
                Len(block_lines(blocks[k])) >= 3 /\ ~int_ok(block_lines(blocks[k])[1])
          /\ \E k \in 1..Len(blocks) :
                \/ Len(block_lines(blocks[k])) < 3
                \/ /\ int_ok(block_lines(blocks[k])[1])
                   /\ time_line_match(block_lines(blocks[k])[2]) = 0
          /\ \E k \in 1..Len(blocks) : well_formed(blocks[k])
    /\ Len(parsed.subtitles) >= 1

----------------------------------------------------------------------------
(* Properties of burn_captions *)

\* the run has built its overlay chain
chain_built(r) == run[r].pc \in {"encode", "finally", "returned", "raised"}
                  /\ run[r].cmd.output = r

\* presentation times at and around the cue boundaries of run r
boundary_times(r) ==
    UNION { {s.start_time - 1, s.start_time, s.start_time + 1,
             s.end_time - 1, s.end_time, s.end_time + 1} :
            s \in {run[r].subtitles[k] : k \in 1..Len(run[r].subtitles)} }

\* C6: the overlay stage of a cue is enabled at presentation time t if and
\* only if cue.start <= t < cue.end (not shown at t = cue.end).
C6_HalfOpenWindow ==
    \A r \in Runs :
        chain_built(r) =>
            \A k \in 1..Len(run[r].cmd.filter_complex) :
                \A t \in boundary_times(r) :
                    stage_enabled(run[r].cmd.filter_complex[k], t)
                    <=> (/\ run[r].subtitles[k].start_time <= t
                         /\ t < run[r].subtitles[k].end_time)

\* C7: for cues produced by the Segmenter, serialised, parsed and composited,
\* at most one overlay stage is enabled at any presentation time.
C7_OneOverlayAtATime ==
    \A r \in Runs :
        chain_built(r) =>
            \A t \in boundary_times(r) :
                Cardinality({k \in 1..Len(run[r].cmd.filter_complex) :
                                stage_enabled(run[r].cmd.filter_complex[k], t)}) <= 1

\* C24: for n >= 1 parsed cues the command holds exactly n image inputs and
\* n overlay stages, both in cue order: stage k (counted from 0) takes the
\* original video as base for k = 0 and the output label of stage k-1
\* otherwise, overlays image input k+1, which is the image saved for cue k,
\* at that image's position and in cue k's time window, and only the last
\* stage writes the label that the command maps.
C24_OverlayChain ==
    \A r \in Runs :
        (chain_built(r) /\ Len(run[r].subtitles) >= 1) =>
            LET n == Len(run[r].subtitles)
                cmd == run[r].cmd
                stages == cmd.filter_complex
            IN /\ Len(stages) = n
               /\ Len(cmd.inputs) = n
               /\ \A k \in 1..n :
                     /\ stages[k].base = IF k = 1 THEN Label("0:v", 0)
                                         ELSE stages[k - 1].out
                     /\ stages[k].overlay = Label("input", k)
                     /\ cmd.inputs[k] = run[r].caption_files[k].path
                     /\ cmd.inputs[k].name = run[r].subtitles[k].index
                     /\ stages[k].x = run[r].caption_files[k].x
                     /\ stages[k].y = run[r].caption_files[k].y
                     /\ stages[k].enable.lo = run[r].subtitles[k].start_time
                     /\ stages[k].enable.hi = run[r].subtitles[k].end_time
                     /\ (stages[k].out = cmd.map) <=> (k = n)
                     /\ \A l \in 1..n : stages[l].out = stages[k].out => l = k

\* a command built for two cues with different texts and time windows
C24_Witness ==
    /\ run[1].pc = "encode"
    /\ Len(run[1].subtitles) = 2
    /\ Len(run[1].cmd.filter_complex) = 2
    /\ run[1].subtitles[1].text # run[1].subtitles[2].text
    /\ run[1].cmd.filter_complex[2].base = Label("v", 0)

\* C25 as stated: within one run every cue is placed at the same (x, y)
\* anchor, whatever the cue's text.
C25_SameAnchor ==
    \A r \in Runs :
        chain_built(r) =>
            \A k, l \in 1..Len(run[r].cmd.filter_complex) :
                /\ run[r].cmd.filter_complex[k].x = run[r].cmd.filter_complex[l].x
                /\ run[r].cmd.filter_complex[k].y = run[r].cmd.filter_complex[l].y

\* C25, amended: the anchor is computed per cue, from the one style that all
\* cues of the run share and the size of the cue's own image: x centres that
\* image in the frame, y follows the style's position for that image, and
\* cues whose images have the same size are placed at the same anchor.
C25_AnchorPerImage ==
    \A r \in Runs :
        chain_built(r) =>
            LET style == args[r].style
                img(k) == caption_image_size(run[r].subtitles[k].text, style)
                stages == run[r].cmd.filter_complex
            IN \A k \in 1..Len(stages) :
                  /\ stages[k].x = (ProbedStream.width - img(k).width) \div 2
                  /\ stages[k].y =
                        IF style.position = "top" THEN style.margin
                        ELSE IF style.position = "middle"
                        THEN (ProbedStream.height - img(k).height) \div 2
                        ELSE ProbedStream.height - img(k).height - style.margin
                  /\ \A l \in 1..Len(stages) :
                        img(k) = img(l) =>
                            /\ stages[k].x = stages[l].x
                            /\ stages[k].y = stages[l].y

\* a command built for two cues whose images differ in width: their
\* horizontal anchors differ
C25_Witness ==
    /\ run[1].pc = "encode"
    /\ Len(run[1].cmd.filter_complex) = 2
    /\ run[1].cmd.filter_complex[1].x # run[1].cmd.filter_complex[2].x

\* C29: for every number of parsed cues, zero included, the filter graph of
\* the command that is handed to ffmpeg defines the label that the command
\* maps.
C29_MappedLabelDefined ==
    \A r \in Runs :
        chain_built(r) =>
            \E k \in 1..Len(run[r].cmd.filter_complex) :
                run[r].cmd.filter_complex[k].out = run[r].cmd.map

\* C8: when ffmpeg exits non-zero, burn_captions raises an error carrying
\* ffmpeg's diagnostic text and no output file of that run remains.
C8_EncoderFailure ==
    \A r \in Runs :
        (run[r].pc = "raised" /\ ffmpegCalls[r] > 0) =>
            /\ run[r].result = [type |-> "RuntimeError", text |-> "ffmpeg stderr"]
            /\ outFile[r] = "absent"

probe_fails(probe) ==
    probe.rc # 0 \/ ~({"width", "height", "r_frame_rate"} \subseteq probe.fields)

\* C9: if ffprobe exits non-zero or omits width, height or frame rate,
\* burn_captions fails with an error: it creates no temporary directory,
\* renders no caption image and never invokes the encoder.
C9_ProbeFatal ==
    \A r \in Runs :
        (args[r].video_exists /\ srtFile.exists /\ probe_fails(args[r].probe)) =>
            /\ run[r].pc \in {"start", "probe", "raised"}
            /\ run[r].pc = "raised" => run[r].result.type \in {"RuntimeError", "KeyError"}
            /\ run[r].own_dir = 0
            /\ tempDirs = <<>>
            /\ run[r].caption_files = <<>>
            /\ ffmpegCalls[r] = 0
            /\ outFile[r] = "absent"

\* a run that failed because ffprobe exited with 0 but printed no frame rate
C9_Witness ==
    /\ run[1].pc = "raised"
    /\ args[1].probe.rc = 0
    /\ "r_frame_rate" \notin args[1].probe.fields
    /\ "width" \in args[1].probe.fields
    /\ run[1].result.type = "KeyError"

\* the run holds a temporary directory: mkdtemp is done, finally is not
in_try(r) == run[r].pc \in {"render", "encode", "finally"}

\* the directory the run writes its images to and removes in the end
dir_in_use(r) == self_temp_dir[args[r].inst]

\* C17: the temporary directory is per run.  Two runs that execute at the
\* same time, on one CaptionBurner or on two, never use the same directory:
\* every image of a run is written to the directory that run created, and
\* that directory is not removed by the other run while the run still
\* uses it.
C17_PerRunDirectory ==
    \A r \in Runs :
        /\ \A k \in 1..Len(run[r].caption_files) :
              run[r].caption_files[k].path.dir = run[r].own_dir
        /\ in_try(r) =>
              /\ dir_in_use(r) = run[r].own_dir
              /\ tempDirs[run[r].own_dir].exists
              /\ \A q \in Runs \ {r} : in_try(q) => dir_in_use(q) # dir_in_use(r)

\* C18: once burn_captions has created its temporary directory, the
\* directory and every caption image in it are deleted when the call ends,
\* whether it returns or raises (successful encode, render failure, encoder
\* failure).
C18_Cleanup ==
    \A r \in Runs :
        (run[r].pc \in {"returned", "raised"} /\ run[r].own_dir # 0) =>
            /\ ~tempDirs[run[r].own_dir].exists
            /\ tempDirs[run[r].own_dir].files = {}

\* a call that saved an image, then failed to render the next one, and has
\* ended
C18_Witness ==
    \E r \in Runs :
        /\ run[r].pc = "raised"
        /\ run[r].result.type = "RenderError"
        /\ Len(run[r].caption_files) >= 1
        /\ run[r].own_dir # 0
        /\ ~tempDirs[run[r].own_dir].exists

----------------------------------------------------------------------------
(* Properties of the layout *)

\* C26: the canvas of create_caption_image reserves room on all four
\* sides: for every outline width >= 0, background padding >= 0 and integer
\* shadow offset the call returns an image of positive width and height, and
\* every rectangle drawn for a line (fill, outline offsets, shadow offsets)
\* lies inside the canvas.
C26_StampsInsideCanvas ==
    canvas.pc \in {"returned", "raised"} =>
        /\ canvas.pc = "returned"
        /\ canvas.img.width > 0
        /\ canvas.img.height > 0
        /\ \A st \in canvas.stamps :
              /\ 0 <= st.left
              /\ 0 <= st.top
              /\ st.right <= canvas.img.width
              /\ st.bottom <= canvas.img.height

\* C28: when two items are assembled concurrently, the clip list that
\* ffmpeg reads while it stitches an item is exactly the list written for
\* that item, under every interleaving of the two stitch_videos calls.
C28_NoInterference ==
    \A row \in Rows :
        worker[row].stitched => worker[row].concat_read = worker[row].clip_paths

C13_Anchor ==
    place.pc = "placed" =>
        LET dx == place.frame.width - place.img.width
            dy == place.frame.height - place.img.height
            pos == place.style.position
        IN /\ 2 * place.x <= dx /\ dx <= 2 * place.x + 1
           /\ pos = "top" => place.y = place.style.margin
           /\ pos = "middle" => 2 * place.y <= dy /\ dy <= 2 * place.y + 1
           /\ pos = "bottom" => place.y = dy - place.style.margin
           /\ (/\ pos = "bottom" /\ place.style.margin = 50
               /\ place.frame = [width |-> 1280, height |-> 720]
               /\ place.img = [width |-> 400, height |-> 100])
              => place.x = 440 /\ place.y = 570

\* the anchor of Scenario E has been computed
C13_Witness ==
    /\ place.pc = "placed"
    /\ place.style.position = "bottom"
    /\ place.style.margin = 50
    /\ place.frame = [width |-> 1280, height |-> 720]
    /\ place.img = [width |-> 400, height |-> 100]
    /\ place.x = 440

\* measured width of a line
line_width(line, style) == getbbox(line, style)[3] - getbbox(line, style)[1]

\* the words of all lines, in order
RECURSIVE words_of_lines(_)
words_of_lines(lines) ==
    IF lines = <<>> THEN <<>> ELSE split_ws(lines[1]) \o words_of_lines(Tail(lines))

C15_WrapIdempotent ==
    wrap.pc = "rewrapped" =>
        /\ Len(wrap.relines) = Len(wrap.lines)
        /\ \A k \in 1..Len(wrap.lines) : wrap.relines[k] = <<wrap.lines[k]>>

\* re-wrapped lines of a text that was broken into a line of two words and
\* a line that is one word wider than max_width
C15_Witness ==
    /\ wrap.pc = "rewrapped"
    /\ \E k \in 1..Len(wrap.lines) : Len(split_ws(wrap.lines[k])) = 2
    /\ \E k \in 1..Len(wrap.lines) :
          line_width(wrap.lines[k], wrap.style) > wrap.style.max_width

====
